---- MODULE Spec2Model ----
(***************************************************************************)
(* Model of the RBAC / authentication core of the admin backend.           *)
(*                                                                         *)
(* Tables are sequences of rows in insertion order (what an unordered      *)
(* SELECT returns on the SQLite engine of config/database.py).  Strings    *)
(* that the code takes apart (identifiers) are sequences of one-character  *)
(* strings; a 32-digit UUID is scaled down to a 2-digit one, its canonical *)
(* form "x-y" carrying one hyphen.                                         *)
(*                                                                         *)
(* Every handler is a pure operator from the current tables and its        *)
(* inputs to the new tables and the HTTP response; the action of the same  *)
(* name applies it.  The module holds several specifications over the same *)
(* variables, one per subsystem, so that each stays small.                 *)
(***************************************************************************)
EXTENDS Integers, Sequences, FiniteSets, TLC

VARIABLES
    admin_users,        \* table admin_users (AdminUser rows)
    admin_roles,        \* table admin_roles (AdminRole rows)
    admin_permissions,  \* table admin_permissions (AdminPermission rows)
    uuid_count,         \* how many uuid4() values have been drawn so far
    resp,               \* the response of the last request
    now,                \* the clock, in minutes
    issued,             \* the access tokens issued so far, each with the id
                        \* of the user it was issued to and whether that
                        \* user's row is untouched since
    request,            \* the input of the last request to auth_service
    deactivated,        \* ids of the users whose last activate/deactivate
                        \* call was deactivate_user_service
    suspended,          \* ids of the users deactivated by
                        \* deactivate_user_service and not set active since
    roles,              \* table roles (Role rows of the normalized model)
    role_scopes,        \* table role_scopes (RoleScope rows)
    enterprise_users,   \* table enterprise_users (EnterpriseUser rows)
    enterprise_roles,   \* table enterprise_roles (EnterpriseRole rows)
    enterprise_admins,  \* table enterprise_admins (EnterpriseAdmin rows)
    pending             \* the concurrent requests in flight: for each
                        \* session, where its call stands and what it holds

store_vars == <<admin_users, admin_roles, admin_permissions, uuid_count>>
auth_vars == <<now, issued, request>>
history_vars == <<deactivated, suspended>>
norm_vars == <<roles, role_scopes>>
ent_vars == <<enterprise_users, enterprise_roles, enterprise_admins>>
vars ==
    <<store_vars, resp, auth_vars, history_vars, norm_vars, ent_vars, pending>>

----------------------------------------------------------------------------
(* Bounds of the model.                                                    *)

\* uuid4() values that may be drawn in one run (each create draws one)
MaxUuids == 2

\* distinct access tokens that may be issued in one run
MaxTokens == 2

\* RoleScope rows one request may ask for, each drawing a uuid4() value more
MaxAssignments == 1

\* characters of the identifier strings given to the normalization
MaxIdLen == 4

----------------------------------------------------------------------------
(* Strings, identifiers, JSON columns, password digests.                   *)

Range(s) == {s[i] : i \in DOMAIN s}

\* Python's None
None == "None"

Digit(n) == CASE n = 0 -> "0" [] n = 1 -> "1" [] n = 2 -> "2" [] n = 3 -> "3"
              [] n = 4 -> "4" [] n = 5 -> "5" [] n = 6 -> "6" [] n = 7 -> "7"
              [] n = 8 -> "8" [] OTHER -> "9"

HexDigits == {"0", "1", "2", "3", "4", "5", "6", "7", "8", "9",
              "a", "b", "c", "d", "e", "f"}

\* str.replace('-', '', 1): the first hyphen removed and no other
strip_hyphens_first(s) ==
    LET at == {i \in DOMAIN s : s[i] = "-"}
        k == IF at = {} THEN 0 ELSE CHOOSE i \in at : \A j \in at : i <= j
    IN  IF k = 0 THEN s ELSE SubSeq(s, 1, k - 1) \o SubSeq(s, k + 1, Len(s))

\* str.replace('-', ''): every hyphen removed
strip_hyphens(s) == SelectSeq(s, LAMBDA c : c # "-")

\* the n-th value uuid4() returns, as its hex digits (UUID.hex)
uuid4(n) == <<"f", Digit(n)>>

\* str(UUID): the canonical, hyphenated text of a UUID given by its hex digits
canonical(hex) == <<hex[1], "-", hex[2]>>

\* uuid.UUID(text): hyphens are dropped, then the text must be exactly the
\* hex digits of a UUID; ok is FALSE where Python raises ValueError ("badly
\* formed hexadecimal UUID string"), else hex holds the UUID's hex digits
UUID(text) ==
    LET h == strip_hyphens(text)
    IN  IF Len(h) = 2 /\ \A i \in 1..Len(h) : h[i] \in HexDigits
        THEN [ok |-> TRUE, hex |-> h] ELSE [ok |-> FALSE, hex |-> <<>>]

\* json.dumps / json.loads of a list of strings: the column holds text, not
\* the list
json_dumps(v) == [json |-> v]
json_loads(t) == t.json

\* every order in which the elements of a set can be listed: list(set(xs))
\* iterates a Python set, whose order is unspecified
list_of_set(S) ==
    {s \in [1..Cardinality(S) -> S] :
        \A i, j \in 1..Cardinality(S) : s[i] = s[j] => i = j}

\* utils/auth_utils.py is not part of the sources: the digest service of
\* spec section 1, hash(password) -> digest and verify(password, digest)
get_password_hash(password) == [bcrypt |-> password]
verify_password(password, digest) == digest = [bcrypt |-> password]

\* index of the first row of a table satisfying a condition, 0 when there is
\* none: db.exec(select(...).where(...)).first()
first(table, Cond(_)) ==
    LET hits == {i \in DOMAIN table : Cond(table[i])}
    IN  IF hits = {} THEN 0 ELSE CHOOSE i \in hits : \A j \in hits : i <= j

\* a table without its i-th row: db.delete(row); db.commit()
without(table, i) == [j \in 1..(Len(table) - 1) |->
                        IF j < i THEN table[j] ELSE table[j + 1]]

\* an HTTP response: status, detail of an HTTPException (None on success),
\* headers and body
NoHeaders == {}
Response(op, status, detail, headers, body) ==
    [op |-> op, status |-> status, detail |-> detail, headers |-> headers,
     body |-> body]
NoResponse == Response("none", 0, None, NoHeaders, None)
NoRequest == [op |-> "none"]

----------------------------------------------------------------------------
(* The seeded rows (config/init_db.py), reduced to two permissions, the    *)
(* system role main_admin holding both, and the default administrator.     *)

SeedPermB1 == <<"b", "1">>
SeedPermB2 == <<"b", "2">>
SeedRoleId == <<"a", "1">>
SeedUserId == <<"c", "1">>

create_default_admin_permissions ==
    << [id |-> SeedPermB1, name |-> "create_enterprise",
        action |-> "create", resource |-> "enterprise", is_active |-> TRUE],
       [id |-> SeedPermB2, name |-> "manage_roles",
        action |-> "manage", resource |-> "role", is_active |-> TRUE] >>

create_default_admin_roles ==
    << [id |-> SeedRoleId, name |-> "main_admin", is_system_role |-> TRUE,
        is_active |-> TRUE,
        permissions |-> json_dumps(<<SeedPermB1, SeedPermB2>>)] >>

create_default_admin_user ==
    << [id |-> SeedUserId, email |-> "mainadmin@example.com",
        username |-> "mainadmin", is_active |-> TRUE,
        password |-> get_password_hash("mainadmin123"),
        role_ids |-> json_dumps(<<SeedRoleId>>),
        permissions |-> json_dumps(<<SeedPermB1, SeedPermB2>>)] >>

\* the state after seeding
\* the sessions of the requests that may run at the same time; none has
\* begun a call
Sessions == {"s1", "s2"}
NoPending == [s \in Sessions |-> [pc |-> "idle"]]

InitSeeded ==
    /\ admin_permissions = create_default_admin_permissions
    /\ admin_roles = create_default_admin_roles
    /\ admin_users = create_default_admin_user
    /\ uuid_count = 0
    /\ resp = NoResponse
    /\ now = 0
    /\ issued = {}
    /\ request = NoRequest
    /\ deactivated = {}
    /\ suspended = {}
    /\ roles = <<>>
    /\ role_scopes = <<>>
    /\ enterprise_users = <<>>
    /\ enterprise_roles = <<>>
    /\ enterprise_admins = <<>>
    /\ pending = NoPending

----------------------------------------------------------------------------
(* services/admin_user_service.py                                          *)

\* int(text): decimal digits with an optional sign; ok is FALSE where Python
\* raises ValueError
int(text) ==
    LET neg  == Len(text) > 0 /\ text[1] = "-"
        body == IF neg THEN Tail(text) ELSE text
        val[i \in 0..Len(body)] ==
            IF i = 0 THEN 0
            ELSE 10 * val[i - 1] +
                 (CHOOSE d \in 0..9 : Digit(d) = body[i])
    IN  IF Len(body) = 0 \/ \E i \in 1..Len(body) : body[i] \notin
                                {Digit(d) : d \in 0..9}
        THEN [ok |-> FALSE, value |-> 0]
        ELSE [ok |-> TRUE,
              value |-> IF neg THEN 0 - val[Len(body)] ELSE val[Len(body)]]

\* index of the user an id string denotes, 0 for None: the row whose key is
\* exactly the string, else the row at that 1-based position of the listing
_convert_id_to_user(user_id) ==
    LET i == first(admin_users, LAMBDA u : u.id = user_id)
        int_id == int(user_id)
    IN  IF i # 0 THEN i
        ELSE IF ~int_id.ok THEN 0
        ELSE IF int_id.value > 0
             THEN IF 0 < int_id.value /\ int_id.value <= Len(admin_users)
                  THEN int_id.value ELSE 0
             ELSE 0

\* _convert_id_to_user as its callers see it.  The key of admin_users is a
\* UUID column and the value compared with it is a string: what the column
\* type makes of the string depends on the installed SQLModel and
\* SQLAlchemy.  The string is compared with the keys as the lines above
\* have it, or it cannot be bound as a UUID, the query raises, and the
\* outer "except Exception" returns None.
_convert_id_to_user_results(user_id) == {_convert_id_to_user(user_id), 0}

\* the loop over role ids shared by the resolver and by user creation: each
\* id is stripped of hyphens and looked up; a role that is found adds its
\* permissions list, one that is not adds nothing
RECURSIVE role_permissions_of(_)
role_permissions_of(role_ids) ==
    IF role_ids = <<>> THEN <<>>
    ELSE LET normalized_role_id == strip_hyphens(Head(role_ids))
             r == first(admin_roles, LAMBDA role : role.id = normalized_role_id)
         IN  (IF r # 0 THEN json_loads(admin_roles[r].permissions) ELSE <<>>)
             \o role_permissions_of(Tail(role_ids))

\* the lists _get_user_permissions_from_roles may return for a user row
\* (one per iteration order of the set)
_get_user_permissions_from_roles_nodedup(user) ==
    {role_permissions_of(json_loads(user.role_ids))
        \o json_loads(user.permissions)}
_get_user_permissions_from_roles(user) ==
    LET role_permissions == role_permissions_of(json_loads(user.role_ids))
        user_permissions == json_loads(user.permissions)
    IN  list_of_set(Range(role_permissions \o user_permissions))

\* a projection that gives up at the first id without a record: the lookup
\* raises, and the outer except answers with the empty list
_get_permission_names_from_ids_strict(permission_ids) ==
    LET at(i) == first(admin_permissions,
                       LAMBDA perm : perm.id = strip_hyphens(permission_ids[i]))
    IN  IF \E i \in DOMAIN permission_ids : at(i) = 0 THEN <<>>
        ELSE [i \in DOMAIN permission_ids |-> admin_permissions[at(i)].name]

\* names of the permissions that resolve, in the order of the ids
RECURSIVE _get_permission_names_from_ids(_)
_get_permission_names_from_ids(permission_ids) ==
    IF permission_ids = <<>> THEN <<>>
    ELSE LET normalized_perm_id == strip_hyphens(Head(permission_ids))
             p == first(admin_permissions,
                        LAMBDA perm : perm.id = normalized_perm_id)
         IN  (IF p # 0 THEN <<admin_permissions[p].name>> ELSE <<>>)
             \o _get_permission_names_from_ids(Tail(permission_ids))

get_admin_user_by_email_service(email) ==
    first(admin_users, LAMBDA u : u.email = email)

get_admin_user_by_username_service(username) ==
    first(admin_users, LAMBDA u : u.username = username)

\* the AdminUserResponse of a row, with the permissions list it is given
AdminUserResponse(user, permissions) ==
    [id |-> user.id, email |-> user.email, username |-> user.username,
     is_active |-> user.is_active, role_ids |-> json_loads(user.role_ids),
     permissions |-> permissions,
     permission_names |-> _get_permission_names_from_ids(permissions)]

\* outcomes of a handler: the users table after it, its response, and how
\* many uuid4() values it drew
Outcome(users, response, drew) ==
    [users |-> users, resp |-> response, drew |-> drew]

\* a create_admin_user_service that does not look for the email and the
\* username, on a table without the unique indexes
create_admin_user_service_results_unchecked(user_data) ==
    { LET user == [id |-> uuid4(uuid_count + 1),
                   email |-> user_data.email,
                   username |-> user_data.username,
                   is_active |-> TRUE,
                   password |-> get_password_hash(user_data.password),
                   role_ids |-> json_dumps(user_data.role_ids),
                   permissions |-> json_dumps(all_permissions)]
      IN  Outcome(Append(admin_users, user),
                  Response("create_admin_user", 200, None, NoHeaders,
                           AdminUserResponse(user, all_permissions)), 1)
      : all_permissions \in
          list_of_set(Range(role_permissions_of(user_data.role_ids)
                                \o user_data.permissions)) }

create_admin_user_service_results(user_data) ==
    IF get_admin_user_by_email_service(user_data.email) # 0
    THEN {Outcome(admin_users,
                  Response("create_admin_user", 400, "Email already exists",
                           NoHeaders, None), 0)}
    ELSE IF get_admin_user_by_username_service(user_data.username) # 0
    THEN {Outcome(admin_users,
                  Response("create_admin_user", 400, "Username already exists",
                           NoHeaders, None), 0)}
    ELSE LET role_permissions == role_permissions_of(user_data.role_ids)
         IN  { LET user == [id |-> uuid4(uuid_count + 1),
                            email |-> user_data.email,
                            username |-> user_data.username,
                            is_active |-> TRUE,
                            password |-> get_password_hash(user_data.password),
                            role_ids |-> json_dumps(user_data.role_ids),
                            permissions |-> json_dumps(all_permissions)]
               IN  Outcome(Append(admin_users, user),
                           Response("create_admin_user", 200, None, NoHeaders,
                                    AdminUserResponse(user, all_permissions)),
                           1)
               : all_permissions \in
                   list_of_set(Range(role_permissions \o user_data.permissions)) }

create_admin_user_service(user_data) ==
    \E r \in create_admin_user_service_results(user_data) :
        /\ uuid_count + r.drew <= MaxUuids
        /\ admin_users' = r.users
        /\ resp' = r.resp
        /\ uuid_count' = uuid_count + r.drew
        /\ UNCHANGED <<admin_roles, admin_permissions, auth_vars, history_vars, pending,
                       norm_vars, ent_vars>>

get_admin_user_by_id_service_results(user_id) ==
    UNION {
        IF i = 0
        THEN {Response("get_admin_user_by_id", 404, "User not found",
                       NoHeaders, None)}
        ELSE {Response("get_admin_user_by_id", 200, None, NoHeaders,
                       AdminUserResponse(admin_users[i], permissions))
              : permissions \in
                  _get_user_permissions_from_roles(admin_users[i])}
        : i \in _convert_id_to_user_results(user_id)}

get_admin_user_by_id_service(user_id) ==
    \E r \in get_admin_user_by_id_service_results(user_id) :
        /\ resp' = r
        /\ UNCHANGED <<store_vars, auth_vars, history_vars, pending,
                       norm_vars, ent_vars>>

\* python truthiness of an optional string
truthy(v) == v # None /\ v # ""

\* a field of the update payload that was set (dict(exclude_unset=True))
is_set(user_data, field) == field \in DOMAIN user_data

\* the row after the setattr loop of an update.  The payloads of the model
\* carry no explicit null (a null reaches commit, violates NOT NULL and is
\* rolled back with a 500), so "value is not None" holds for the lists.
updated_user(user, user_data) ==
    [f \in DOMAIN user |->
        IF f = "id" \/ ~is_set(user_data, f) THEN user[f]
        ELSE IF f = "password" /\ truthy(user_data[f])
             THEN get_password_hash(user_data[f])
        ELSE IF f \in {"role_ids", "permissions"}
             THEN json_dumps(user_data[f])
        ELSE user_data[f]]

\* email and username are Field(unique=True): the commit of row i fails
\* on the unique index when another row carries its email or its username;
\* the IntegrityError is caught by "except Exception" and rolled back
identity_taken(table, i, row) ==
    \E k \in DOMAIN table :
        k # i /\ (table[k].email = row.email
                    \/ table[k].username = row.username)

replace_row(table, i, row) == [table EXCEPT ![i] = row]

\* the issued tokens after the row of user `id` was written or deleted
touched(id) == {[t EXCEPT !.untouched = t.untouched /\ t.to # id] : t \in issued}

update_admin_user_service_results(user_id, user_data) ==
    UNION {
        IF i = 0
        THEN {Outcome(admin_users,
                      Response("update_admin_user", 404, "User not found",
                               NoHeaders, None), 0)}
        ELSE LET user == admin_users[i]
                 new  == updated_user(user, user_data)
             IN  IF /\ is_set(user_data, "email")
                    /\ truthy(user_data.email)
                    /\ user_data.email # user.email
                    /\ get_admin_user_by_email_service(user_data.email) # 0
                 THEN {Outcome(admin_users,
                               Response("update_admin_user", 400,
                                        "Email already exists", NoHeaders, None),
                               0)}
                 ELSE IF /\ is_set(user_data, "username")
                         /\ truthy(user_data.username)
                         /\ user_data.username # user.username
                         /\ get_admin_user_by_username_service(
                                user_data.username) # 0
                 THEN {Outcome(admin_users,
                               Response("update_admin_user", 400,
                                        "Username already exists", NoHeaders,
                                        None), 0)}
                 ELSE IF identity_taken(admin_users, i, new)
                 THEN {Outcome(admin_users,
                               Response("update_admin_user", 500,
                                        "Error updating user", NoHeaders, None),
                               0)}
                 ELSE {Outcome(replace_row(admin_users, i, new),
                               Response("update_admin_user", 200, None,
                                        NoHeaders,
                                        AdminUserResponse(new, permissions)), 0)
                       : permissions \in
                           _get_user_permissions_from_roles(new)}
        : i \in _convert_id_to_user_results(user_id)}

update_admin_user_service(user_id, user_data) ==
    \E r \in update_admin_user_service_results(user_id, user_data) :
        /\ admin_users' = r.users
        /\ resp' = r.resp
        /\ issued' = IF r.resp.status = 200 THEN touched(r.resp.body.id)
                                             ELSE issued
        /\ suspended' = IF /\ r.resp.status = 200
                           /\ is_set(user_data, "is_active")
                           /\ r.resp.body.is_active
                        THEN suspended \ {r.resp.body.id} ELSE suspended
        /\ UNCHANGED <<admin_roles, admin_permissions, uuid_count, now,
                       request, deactivated,
                       norm_vars, ent_vars, pending>>

delete_admin_user_service_results(user_id) ==
    { IF i = 0
      THEN Outcome(admin_users,
                   Response("delete_admin_user", 404, "User not found",
                            NoHeaders, None), 0)
      ELSE Outcome(without(admin_users, i),
                   Response("delete_admin_user", 200, None, NoHeaders,
                            [id |-> admin_users[i].id]), 0)
      : i \in _convert_id_to_user_results(user_id)}

delete_admin_user_service(user_id) ==
    \E r \in delete_admin_user_service_results(user_id) :
        /\ admin_users' = r.users
        /\ resp' = r.resp
        /\ issued' = IF r.resp.status = 200 THEN touched(r.resp.body.id)
                                             ELSE issued
        /\ UNCHANGED <<admin_roles, admin_permissions, uuid_count, now,
                       request, history_vars, pending,
                       norm_vars, ent_vars>>

verify_user_password_service(user, password) ==
    verify_password(password, user.password)

\* activate_user_service and deactivate_user_service differ in the flag
\* they write and in nothing else
set_active_results(op, user_id, flag) ==
    UNION {
        IF i = 0
        THEN {Outcome(admin_users,
                      Response(op, 404, "User not found", NoHeaders, None), 0)}
        ELSE LET user == [admin_users[i] EXCEPT !.is_active = flag]
             IN  {Outcome(replace_row(admin_users, i, user),
                          Response(op, 200, None, NoHeaders,
                                   AdminUserResponse(user, permissions)), 0)
                  : permissions \in _get_user_permissions_from_roles(user)}
        : i \in _convert_id_to_user_results(user_id)}

activate_user_service_results(user_id) ==
    set_active_results("activate_user", user_id, TRUE)

activate_user_service(user_id) ==
    \E r \in activate_user_service_results(user_id) :
        /\ admin_users' = r.users
        /\ resp' = r.resp
        /\ issued' = IF r.resp.status = 200 THEN touched(r.resp.body.id)
                                             ELSE issued
        /\ deactivated' = IF r.resp.status = 200
                          THEN deactivated \ {r.resp.body.id} ELSE deactivated
        /\ suspended' = IF r.resp.status = 200
                        THEN suspended \ {r.resp.body.id} ELSE suspended
        /\ UNCHANGED <<admin_roles, admin_permissions, uuid_count, now,
                       request,
                       norm_vars, ent_vars, pending>>

deactivate_user_service_results(user_id) ==
    set_active_results("deactivate_user", user_id, FALSE)

deactivate_user_service(user_id) ==
    \E r \in deactivate_user_service_results(user_id) :
        /\ admin_users' = r.users
        /\ resp' = r.resp
        /\ issued' = IF r.resp.status = 200 THEN touched(r.resp.body.id)
                                             ELSE issued
        /\ deactivated' = IF r.resp.status = 200
                          THEN deactivated \cup {r.resp.body.id} ELSE deactivated
        /\ suspended' = IF r.resp.status = 200
                        THEN suspended \cup {r.resp.body.id} ELSE suspended
        /\ UNCHANGED <<admin_roles, admin_permissions, uuid_count, now,
                       request,
                       norm_vars, ent_vars, pending>>

----------------------------------------------------------------------------
(* services/admin_role_service.py                                          *)

\* outcome of a role handler: the roles table after it, its response, and
\* how many uuid4() values it drew
RoleOutcome(table, response, drew) ==
    [roles |-> table, resp |-> response, drew |-> drew]

AdminRoleResponse(role) ==
    [id |-> role.id, name |-> role.name, is_active |-> role.is_active,
     permissions |-> json_loads(role.permissions)]

get_admin_role_by_name_service(name) ==
    first(admin_roles, LAMBDA role : role.name = name)

\* get_admin_role_by_id_service up to the row it settles on, 0 where it
\* returns None: the row whose key is exactly the string given, else the
\* row at that 1-based position of the listing
get_admin_role_by_id_service_row(role_id) ==
    LET i == first(admin_roles, LAMBDA role : role.id = role_id)
        int_id == int(role_id)
    IN  IF i # 0 THEN i
        ELSE IF ~int_id.ok THEN 0
        ELSE IF int_id.value > 0
             THEN IF 0 < int_id.value /\ int_id.value <= Len(admin_roles)
                  THEN int_id.value ELSE 0
             ELSE 0

get_admin_role_by_id_service_result(role_id) ==
    LET i == get_admin_role_by_id_service_row(role_id)
    IN  Response("get_admin_role_by_id", 200, None, NoHeaders,
                 IF i = 0 THEN None ELSE AdminRoleResponse(admin_roles[i]))

get_admin_role_by_id_service(role_id) ==
    /\ resp' = get_admin_role_by_id_service_result(role_id)
    /\ request' = [op |-> "get_admin_role_by_id", role_id |-> role_id]
    /\ UNCHANGED <<store_vars, now, issued, history_vars, pending, norm_vars,
                   ent_vars>>

\* select(AdminRole).where(AdminRole.id == role_uuid).first(): the key
\* column is text and holds the hyphen-free digits, the value compared with
\* it is a UUID object.  What the driver makes of the object depends on the
\* installed SQLAlchemy and SQLModel: it is bound as its hex digits and the
\* row is found, or it cannot be bound and the query raises.
role_by_uuid(role_uuid) ==
    {[raised |-> FALSE,
      i |-> first(admin_roles, LAMBDA role : role.id = role_uuid.hex)],
     [raised |-> TRUE, i |-> 0]}

\* AdminRole(name, description, permissions, is_active): is_system_role is
\* not passed on and takes the column default
create_admin_role_service_result(role_data) ==
    IF get_admin_role_by_name_service(role_data.name) # 0
    THEN RoleOutcome(admin_roles,
                     Response("create_admin_role", 400,
                              "Role name already exists", NoHeaders, None), 0)
    ELSE LET role == [id |-> strip_hyphens(canonical(uuid4(uuid_count + 1))),
                      name |-> role_data.name,
                      is_system_role |-> FALSE,
                      is_active |-> role_data.is_active,
                      permissions |-> json_dumps(role_data.permissions)]
         IN  RoleOutcome(Append(admin_roles, role),
                         Response("create_admin_role", 200, None, NoHeaders,
                                  AdminRoleResponse(role)), 1)

create_admin_role_service(role_data) ==
    LET r == create_admin_role_service_result(role_data)
    IN  /\ uuid_count + r.drew <= MaxUuids
        /\ admin_roles' = r.roles
        /\ resp' = r.resp
        /\ uuid_count' = uuid_count + r.drew
        /\ UNCHANGED <<admin_users, admin_permissions, auth_vars, history_vars, pending,
                       norm_vars, ent_vars>>

\* the row after the setattr loop of update_admin_role_service
\* name: str = Field(unique=True): the commit of row i under this name
\* violates the unique index when another row carries the name; the
\* IntegrityError is caught by "except Exception" and rolled back
name_taken(table, i, name) ==
    \E k \in DOMAIN table : k # i /\ table[k].name = name

\* an insert into a table admin_roles that has no unique index on name
create_admin_role_commit_result_unindexed(role_data) ==
    LET role == [id |-> strip_hyphens(canonical(uuid4(uuid_count + 1))),
                 name |-> role_data.name,
                 is_system_role |-> FALSE,
                 is_active |-> role_data.is_active,
                 permissions |-> json_dumps(role_data.permissions)]
    IN  RoleOutcome(Append(admin_roles, role),
                    Response("create_admin_role", 200, None, NoHeaders,
                             AdminRoleResponse(role)), 1)

\* create_admin_role_service from db.add(role) on, for a call that found
\* the name free when it looked: the commit inserts the row, or violates
\* the unique index of name when a row of that name was committed since;
\* the IntegrityError is caught by "except Exception", rolled back and
\* answered with 500
create_admin_role_commit_result(role_data) ==
    LET role == [id |-> strip_hyphens(canonical(uuid4(uuid_count + 1))),
                 name |-> role_data.name,
                 is_system_role |-> FALSE,
                 is_active |-> role_data.is_active,
                 permissions |-> json_dumps(role_data.permissions)]
    IN  IF name_taken(admin_roles, 0, role_data.name)
        THEN RoleOutcome(admin_roles,
                         Response("create_admin_role", 500,
                                  "Error creating role", NoHeaders, None), 1)
        ELSE RoleOutcome(Append(admin_roles, role),
                         Response("create_admin_role", 200, None, NoHeaders,
                                  AdminRoleResponse(role)), 1)

\* a concurrent call up to its name check: get_admin_role_by_name_service
\* finds the name and the call is refused, or finds nothing and the call
\* goes on to build and add the row
create_admin_role_begin(s, role_data) ==
    /\ pending[s].pc = "idle"
    /\ IF get_admin_role_by_name_service(role_data.name) # 0
       THEN /\ resp' = Response("create_admin_role", 400,
                                "Role name already exists", NoHeaders, None)
            /\ UNCHANGED pending
       ELSE /\ pending' = [pending EXCEPT
                              ![s] = [pc |-> "checked",
                                      role_data |-> role_data]]
            /\ UNCHANGED resp
    /\ UNCHANGED <<store_vars, auth_vars, history_vars, norm_vars, ent_vars>>

\* the same call from db.add(role) to its response
create_admin_role_commit(s) ==
    /\ pending[s].pc = "checked"
    /\ LET r == create_admin_role_commit_result(pending[s].role_data)
       IN  /\ uuid_count + r.drew <= MaxUuids
           /\ admin_roles' = r.roles
           /\ resp' = r.resp
           /\ uuid_count' = uuid_count + r.drew
    /\ pending' = [pending EXCEPT ![s] = [pc |-> "idle"]]
    /\ UNCHANGED <<admin_users, admin_permissions, auth_vars, history_vars,
                   norm_vars, ent_vars>>

updated_role(role, role_data) ==
    [f \in DOMAIN role |->
        IF f = "id" \/ ~is_set(role_data, f) THEN role[f]
        ELSE IF f = "permissions" THEN json_dumps(role_data[f])
        ELSE role_data[f]]

update_admin_role_service_results(role_id, role_data) ==
    LET role_uuid == UUID(role_id)
    IN  IF ~role_uuid.ok
        THEN {RoleOutcome(admin_roles,
                          Response("update_admin_role", 400,
                                   "Invalid role ID format", NoHeaders, None),
                          0)}
        ELSE {IF l.raised
              THEN RoleOutcome(admin_roles,
                               Response("update_admin_role", 500,
                                        "Error updating role", NoHeaders, None),
                               0)
              ELSE IF l.i = 0
              THEN RoleOutcome(admin_roles,
                               Response("update_admin_role", 404,
                                        "Role not found", NoHeaders, None), 0)
              ELSE IF /\ is_set(role_data, "name")
                      /\ truthy(role_data.name)
                      /\ role_data.name # admin_roles[l.i].name
                      /\ get_admin_role_by_name_service(role_data.name) # 0
              THEN RoleOutcome(admin_roles,
                               Response("update_admin_role", 400,
                                        "Role name already exists", NoHeaders,
                                        None), 0)
              ELSE LET new == updated_role(admin_roles[l.i], role_data)
                   IN  IF name_taken(admin_roles, l.i, new.name)
                       THEN RoleOutcome(admin_roles,
                                        Response("update_admin_role", 500,
                                                 "Error updating role",
                                                 NoHeaders, None), 0)
                       ELSE RoleOutcome(replace_row(admin_roles, l.i, new),
                                        Response("update_admin_role", 200,
                                                 None, NoHeaders,
                                                 AdminRoleResponse(new)), 0)
              : l \in role_by_uuid(role_uuid)}

update_admin_role_service(role_id, role_data) ==
    \E r \in update_admin_role_service_results(role_id, role_data) :
        /\ admin_roles' = r.roles
        /\ resp' = r.resp
        /\ UNCHANGED <<admin_users, admin_permissions, uuid_count, auth_vars,
                       history_vars, pending, norm_vars, ent_vars>>

delete_admin_role_service_results(role_id) ==
    LET role_uuid == UUID(role_id)
    IN  IF ~role_uuid.ok
        THEN {RoleOutcome(admin_roles,
                          Response("delete_admin_role", 400,
                                   "Invalid role ID format", NoHeaders, None),
                          0)}
        ELSE {IF l.raised
              THEN RoleOutcome(admin_roles,
                               Response("delete_admin_role", 500,
                                        "Error deleting role", NoHeaders, None),
                               0)
              ELSE IF l.i = 0
              THEN RoleOutcome(admin_roles,
                               Response("delete_admin_role", 404,
                                        "Role not found", NoHeaders, None), 0)
              ELSE RoleOutcome(without(admin_roles, l.i),
                               Response("delete_admin_role", 200, None,
                                        NoHeaders, TRUE), 0)
              : l \in role_by_uuid(role_uuid)}

\* a delete that also removes the users whose role_ids name the role
delete_admin_role_service_cascading(role_id) ==
    \E r \in delete_admin_role_service_results(role_id) :
        /\ admin_roles' = r.roles
        /\ resp' = r.resp
        /\ admin_users' =
              SelectSeq(admin_users,
                        LAMBDA u : \A n \in DOMAIN json_loads(u.role_ids) :
                            \E k \in DOMAIN r.roles :
                                r.roles[k].id
                                    = strip_hyphens(json_loads(u.role_ids)[n]))
        /\ UNCHANGED <<admin_permissions, uuid_count, auth_vars,
                       history_vars, pending, norm_vars, ent_vars>>

delete_admin_role_service(role_id) ==
    \E r \in delete_admin_role_service_results(role_id) :
        /\ admin_roles' = r.roles
        /\ resp' = r.resp
        /\ UNCHANGED <<admin_users, admin_permissions, uuid_count, auth_vars,
                       history_vars, pending, norm_vars, ent_vars>>

\* a deactivation that also takes the permissions from the role
set_role_active_results_stripping(op, role_id, flag) ==
    LET role_uuid == UUID(role_id)
    IN  IF ~role_uuid.ok
        THEN {RoleOutcome(admin_roles,
                          Response(op, 400, "Invalid role ID format",
                                   NoHeaders, None), 0)}
        ELSE {IF l.raised
              THEN RoleOutcome(admin_roles,
                               Response(op, 500,
                                        IF flag THEN "Error activating role"
                                        ELSE "Error deactivating role",
                                        NoHeaders, None), 0)
              ELSE IF l.i = 0
              THEN RoleOutcome(admin_roles,
                               Response(op, 404, "Role not found", NoHeaders,
                                        None), 0)
              ELSE LET role == [admin_roles[l.i] EXCEPT
                                    !.is_active = flag,
                                    !.permissions =
                                        IF flag THEN @ ELSE json_dumps(<<>>)]
                   IN  RoleOutcome(replace_row(admin_roles, l.i, role),
                                   Response(op, 200, None, NoHeaders,
                                            AdminRoleResponse(role)), 0)
              : l \in role_by_uuid(role_uuid)}

\* activate_role_service and deactivate_role_service differ in the flag
\* they write and in the detail of their 500 and in nothing else
set_role_active_results(op, role_id, flag) ==
    LET role_uuid == UUID(role_id)
    IN  IF ~role_uuid.ok
        THEN {RoleOutcome(admin_roles,
                          Response(op, 400, "Invalid role ID format",
                                   NoHeaders, None), 0)}
        ELSE {IF l.raised
              THEN RoleOutcome(admin_roles,
                               Response(op, 500,
                                        IF flag THEN "Error activating role"
                                        ELSE "Error deactivating role",
                                        NoHeaders, None), 0)
              ELSE IF l.i = 0
              THEN RoleOutcome(admin_roles,
                               Response(op, 404, "Role not found", NoHeaders,
                                        None), 0)
              ELSE LET role == [admin_roles[l.i] EXCEPT !.is_active = flag]
                   IN  RoleOutcome(replace_row(admin_roles, l.i, role),
                                   Response(op, 200, None, NoHeaders,
                                            AdminRoleResponse(role)), 0)
              : l \in role_by_uuid(role_uuid)}

activate_role_service(role_id) ==
    \E r \in set_role_active_results("activate_role", role_id, TRUE) :
        /\ admin_roles' = r.roles
        /\ resp' = r.resp
        /\ request' = [op |-> "activate_role", role_id |-> role_id]
        /\ UNCHANGED <<admin_users, admin_permissions, uuid_count, now,
                       issued, history_vars, pending, norm_vars, ent_vars>>

deactivate_role_service(role_id) ==
    \E r \in set_role_active_results("deactivate_role", role_id, FALSE) :
        /\ admin_roles' = r.roles
        /\ resp' = r.resp
        /\ request' = [op |-> "deactivate_role", role_id |-> role_id]
        /\ UNCHANGED <<admin_users, admin_permissions, uuid_count, now,
                       issued, history_vars, pending, norm_vars, ent_vars>>

----------------------------------------------------------------------------
(* services/admin_permission_service.py                                    *)

\* outcome of a permission handler: the permissions table after it, its
\* response, and how many uuid4() values it drew
PermOutcome(table, response, drew) ==
    [permissions |-> table, resp |-> response, drew |-> drew]

AdminPermissionResponse(permission) ==
    [id |-> permission.id, name |-> permission.name,
     resource |-> permission.resource, action |-> permission.action,
     is_active |-> permission.is_active]

\* index of the permission an id string denotes, 0 for None: the row whose
\* key is exactly the string, else the row at that 1-based position
_convert_id_to_permission(permission_id) ==
    LET i == first(admin_permissions, LAMBDA p : p.id = permission_id)
        int_id == int(permission_id)
    IN  IF i # 0 THEN i
        ELSE IF ~int_id.ok THEN 0
        ELSE IF int_id.value > 0
             THEN IF 0 < int_id.value /\ int_id.value <= Len(admin_permissions)
                  THEN int_id.value ELSE 0
             ELSE 0

get_admin_permission_by_name_service(name) ==
    first(admin_permissions, LAMBDA p : p.name = name)

create_admin_permission_service_result(permission_data) ==
    IF get_admin_permission_by_name_service(permission_data.name) # 0
    THEN PermOutcome(admin_permissions,
                     Response("create_admin_permission", 400,
                              "Permission name already exists", NoHeaders,
                              None), 0)
    ELSE LET permission ==
                [id |-> strip_hyphens(canonical(uuid4(uuid_count + 1))),
                 name |-> permission_data.name,
                 action |-> permission_data.action,
                 resource |-> permission_data.resource,
                 is_active |-> permission_data.is_active]
         IN  PermOutcome(Append(admin_permissions, permission),
                         Response("create_admin_permission", 200, None,
                                  NoHeaders,
                                  AdminPermissionResponse(permission)), 1)

create_admin_permission_service(permission_data) ==
    LET r == create_admin_permission_service_result(permission_data)
    IN  /\ uuid_count + r.drew <= MaxUuids
        /\ admin_permissions' = r.permissions
        /\ resp' = r.resp
        /\ uuid_count' = uuid_count + r.drew
        /\ UNCHANGED <<admin_users, admin_roles, auth_vars, history_vars, pending,
                       norm_vars, ent_vars>>

updated_permission(permission, permission_data) ==
    [f \in DOMAIN permission |->
        IF f = "id" \/ ~is_set(permission_data, f) THEN permission[f]
        ELSE permission_data[f]]

update_admin_permission_service_result(permission_id, permission_data) ==
    LET i == _convert_id_to_permission(permission_id)
    IN  IF i = 0
        THEN PermOutcome(admin_permissions,
                         Response("update_admin_permission", 404,
                                  "Permission not found", NoHeaders, None), 0)
        ELSE IF /\ is_set(permission_data, "name")
                /\ truthy(permission_data.name)
                /\ permission_data.name # admin_permissions[i].name
                /\ get_admin_permission_by_name_service(permission_data.name)
                      # 0
        THEN PermOutcome(admin_permissions,
                         Response("update_admin_permission", 400,
                                  "Permission name already exists", NoHeaders,
                                  None), 0)
        ELSE LET new == updated_permission(admin_permissions[i],
                                           permission_data)
             IN  IF name_taken(admin_permissions, i, new.name)
                 THEN PermOutcome(admin_permissions,
                                  Response("update_admin_permission", 500,
                                           "Error updating permission",
                                           NoHeaders, None), 0)
                 ELSE PermOutcome(replace_row(admin_permissions, i, new),
                                  Response("update_admin_permission", 200,
                                           None, NoHeaders,
                                           AdminPermissionResponse(new)), 0)

update_admin_permission_service(permission_id, permission_data) ==
    LET r == update_admin_permission_service_result(permission_id,
                                                    permission_data)
    IN  /\ admin_permissions' = r.permissions
        /\ resp' = r.resp
        /\ UNCHANGED <<admin_users, admin_roles, uuid_count, auth_vars,
                       history_vars, pending, norm_vars, ent_vars>>

delete_admin_permission_service_result(permission_id) ==
    LET i == _convert_id_to_permission(permission_id)
    IN  IF i = 0
        THEN PermOutcome(admin_permissions,
                         Response("delete_admin_permission", 404,
                                  "Permission not found", NoHeaders, None), 0)
        ELSE PermOutcome(without(admin_permissions, i),
                         Response("delete_admin_permission", 200, None,
                                  NoHeaders, TRUE), 0)

delete_admin_permission_service(permission_id) ==
    LET r == delete_admin_permission_service_result(permission_id)
    IN  /\ admin_permissions' = r.permissions
        /\ resp' = r.resp
        /\ UNCHANGED <<admin_users, admin_roles, uuid_count, auth_vars,
                       history_vars, pending, norm_vars, ent_vars>>

----------------------------------------------------------------------------
(* controllers/role_controller.py (the normalized model)                   *)

\* outcome of a role_controller handler: the roles and role_scopes tables
\* after it, its response, and how many uuid4() values it drew
NormOutcome(table, scopes, response, drew) ==
    [roles |-> table, role_scopes |-> scopes, resp |-> response,
     drew |-> drew]

RoleResponse(role) ==
    [id |-> role.id, name |-> role.name, description |-> role.description,
     is_system_role |-> role.is_system_role]

get_role_by_name(role_name) ==
    first(roles, LAMBDA role : role.name = role_name)

\* select(Role).where(Role.id == role_uuid)
role_of_uuid(role_uuid) ==
    first(roles, LAMBDA role : role.id = role_uuid.hex)

\* the RoleScope rows added for scope_ids, their ids drawn after n draws
RECURSIVE role_scope_rows(_, _, _)
role_scope_rows(role_id, scope_ids, n) ==
    IF scope_ids = <<>> THEN <<>>
    ELSE <<[id |-> uuid4(n + 1), role_id |-> role_id,
            scope_id |-> Head(scope_ids)]>>
         \o role_scope_rows(role_id, Tail(scope_ids), n + 1)

\* where the database fails a create_role_with_scopes: nowhere, at the
\* commit of the role, at the commit of the scope assignments
CommitFaults == {"none", "role", "scopes"}

\* the role is committed first, the RoleScope rows in a second commit; an
\* exception of either commit is answered with 500 after db.rollback(),
\* which undoes what was not committed yet
create_role_with_scopes_results(role_data) ==
    IF get_role_by_name(role_data.name) # 0
    THEN {NormOutcome(roles, role_scopes,
                      Response("create_role_with_scopes", 400,
                               "Role name already exists", NoHeaders, None),
                      0)}
    ELSE LET role == [id |-> uuid4(uuid_count + 1),
                      name |-> role_data.name,
                      description |-> role_data.description,
                      is_system_role |-> role_data.is_system_role]
             failed == Response("create_role_with_scopes", 500,
                                "Error creating role", NoHeaders, None)
         IN  { IF fault = "role"
               THEN NormOutcome(roles, role_scopes, failed, 1)
               ELSE IF fault = "scopes"
               THEN NormOutcome(Append(roles, role), role_scopes, failed,
                                1 + Len(role_data.scope_ids))
               ELSE NormOutcome(Append(roles, role),
                                role_scopes
                                    \o role_scope_rows(role.id,
                                                       role_data.scope_ids,
                                                       uuid_count + 1),
                                Response("create_role_with_scopes", 200, None,
                                         NoHeaders, RoleResponse(role)),
                                1 + Len(role_data.scope_ids))
               : fault \in CommitFaults }

create_role_with_scopes(role_data) ==
    \E r \in create_role_with_scopes_results(role_data) :
        /\ uuid_count + r.drew <= MaxUuids + MaxAssignments
        /\ roles' = r.roles
        /\ role_scopes' = r.role_scopes
        /\ resp' = r.resp
        /\ uuid_count' = uuid_count + r.drew
        /\ UNCHANGED <<admin_users, admin_roles, admin_permissions, auth_vars,
                       history_vars, pending, ent_vars>>

create_role_result(role_data) ==
    IF get_role_by_name(role_data.name) # 0
    THEN NormOutcome(roles, role_scopes,
                     Response("create_role", 400, "Role name already exists",
                              NoHeaders, None), 0)
    ELSE LET role == [id |-> uuid4(uuid_count + 1),
                      name |-> role_data.name,
                      description |-> role_data.description,
                      is_system_role |-> role_data.is_system_role]
         IN  NormOutcome(Append(roles, role), role_scopes,
                         Response("create_role", 200, None, NoHeaders,
                                  RoleResponse(role)), 1)

create_role(role_data) ==
    LET r == create_role_result(role_data)
    IN  /\ uuid_count + r.drew <= MaxUuids
        /\ roles' = r.roles
        /\ resp' = r.resp
        /\ uuid_count' = uuid_count + r.drew
        /\ UNCHANGED <<admin_users, admin_roles, admin_permissions, auth_vars,
                       history_vars, pending, role_scopes, ent_vars>>

\* the row after the setattr loop of update_role
updated_norm_role(role, role_data) ==
    [f \in DOMAIN role |->
        IF f = "id" \/ ~is_set(role_data, f) THEN role[f] ELSE role_data[f]]

\* an update_role without the guard on system roles
update_role_result_unguarded(role_id, role_data) ==
    LET role_uuid == UUID(role_id)
        i == role_of_uuid(role_uuid)
    IN  IF ~role_uuid.ok
        THEN NormOutcome(roles, role_scopes,
                         Response("update_role", 400,
                                  "Invalid role ID format", NoHeaders, None), 0)
        ELSE IF i = 0
        THEN NormOutcome(roles, role_scopes,
                         Response("update_role", 404, "Role not found",
                                  NoHeaders, None), 0)
        ELSE LET new == updated_norm_role(roles[i], role_data)
             IN  NormOutcome(replace_row(roles, i, new), role_scopes,
                             Response("update_role", 200, None, NoHeaders,
                                      RoleResponse(new)), 0)

update_role_result(role_id, role_data) ==
    LET role_uuid == UUID(role_id)
        i == role_of_uuid(role_uuid)
    IN  IF ~role_uuid.ok
        THEN NormOutcome(roles, role_scopes,
                         Response("update_role", 400,
                                  "Invalid role ID format", NoHeaders, None), 0)
        ELSE IF i = 0
        THEN NormOutcome(roles, role_scopes,
                         Response("update_role", 404, "Role not found",
                                  NoHeaders, None), 0)
        ELSE IF roles[i].is_system_role
        THEN NormOutcome(roles, role_scopes,
                         Response("update_role", 400,
                                  "Cannot update system roles", NoHeaders,
                                  None), 0)
        ELSE IF /\ is_set(role_data, "name")
                /\ truthy(role_data.name)
                /\ role_data.name # roles[i].name
                /\ get_role_by_name(role_data.name) # 0
        THEN NormOutcome(roles, role_scopes,
                         Response("update_role", 400,
                                  "Role name already exists", NoHeaders, None),
                         0)
        ELSE LET new == updated_norm_role(roles[i], role_data)
             IN  NormOutcome(replace_row(roles, i, new), role_scopes,
                             Response("update_role", 200, None, NoHeaders,
                                      RoleResponse(new)), 0)

update_role(role_id, role_data) ==
    LET r == update_role_result(role_id, role_data)
    IN  /\ roles' = r.roles
        /\ resp' = r.resp
        /\ UNCHANGED <<store_vars, auth_vars, history_vars, pending, role_scopes,
                       ent_vars>>

delete_role_result(role_id) ==
    LET role_uuid == UUID(role_id)
        i == role_of_uuid(role_uuid)
    IN  IF ~role_uuid.ok
        THEN NormOutcome(roles, role_scopes,
                         Response("delete_role", 400,
                                  "Invalid role ID format", NoHeaders, None), 0)
        ELSE IF i = 0
        THEN NormOutcome(roles, role_scopes,
                         Response("delete_role", 404, "Role not found",
                                  NoHeaders, None), 0)
        ELSE IF roles[i].is_system_role
        THEN NormOutcome(roles, role_scopes,
                         Response("delete_role", 400,
                                  "Cannot delete system roles", NoHeaders,
                                  None), 0)
        ELSE NormOutcome(without(roles, i), role_scopes,
                         Response("delete_role", 200, None, NoHeaders, TRUE),
                         0)

delete_role(role_id) ==
    LET r == delete_role_result(role_id)
    IN  /\ roles' = r.roles
        /\ resp' = r.resp
        /\ UNCHANGED <<store_vars, auth_vars, history_vars, pending, role_scopes,
                       ent_vars>>

----------------------------------------------------------------------------
(* controllers/rbac_controller.py (role-scope assignments)                 *)

\* the scopes table; none of the handlers of the model writes it
scopes == <<[id |-> <<"d", "1">>, name |-> "role:read"]>>

get_role_by_id_internal(role_id) ==
    first(roles, LAMBDA role : role.id = role_id)

get_scope_by_id_internal(scope_id) ==
    first(scopes, LAMBDA scope : scope.id = scope_id)

\* the first assignment of the scope to the role, 0 for None
get_role_scope(role_id, scope_id) ==
    first(role_scopes,
          LAMBDA row : row.role_id = role_id /\ row.scope_id = scope_id)

\* role_id and scope_id are UUID objects, given by their hex digits
assign_scope_to_role_result(role_id, scope_id) ==
    IF get_role_by_id_internal(role_id) = 0
    THEN NormOutcome(roles, role_scopes,
                     Response("assign_scope_to_role", 404, "Role not found",
                              NoHeaders, None), 0)
    ELSE IF get_scope_by_id_internal(scope_id) = 0
    THEN NormOutcome(roles, role_scopes,
                     Response("assign_scope_to_role", 404, "Scope not found",
                              NoHeaders, None), 0)
    ELSE IF get_role_scope(role_id, scope_id) # 0
    THEN NormOutcome(roles, role_scopes,
                     Response("assign_scope_to_role", 400,
                              "Scope already assigned to role", NoHeaders,
                              None), 0)
    ELSE NormOutcome(roles,
                     role_scopes \o role_scope_rows(role_id, <<scope_id>>,
                                                    uuid_count),
                     Response("assign_scope_to_role", 200, None, NoHeaders,
                              TRUE), 1)

assign_scope_to_role(role_id, scope_id) ==
    LET r == assign_scope_to_role_result(role_id, scope_id)
    IN  /\ uuid_count + r.drew <= MaxUuids + MaxAssignments
        /\ role_scopes' = r.role_scopes
        /\ resp' = r.resp
        /\ uuid_count' = uuid_count + r.drew
        /\ UNCHANGED <<admin_users, admin_roles, admin_permissions, auth_vars,
                       history_vars, pending, roles, ent_vars>>

remove_scope_from_role_result(role_id, scope_id) ==
    LET i == get_role_scope(role_id, scope_id)
    IN  IF i = 0
        THEN NormOutcome(roles, role_scopes,
                         Response("remove_scope_from_role", 404,
                                  "Scope not assigned to role", NoHeaders,
                                  None), 0)
        ELSE NormOutcome(roles, without(role_scopes, i),
                         Response("remove_scope_from_role", 200, None,
                                  NoHeaders, TRUE), 0)

remove_scope_from_role(role_id, scope_id) ==
    LET r == remove_scope_from_role_result(role_id, scope_id)
    IN  /\ role_scopes' = r.role_scopes
        /\ resp' = r.resp
        /\ UNCHANGED <<store_vars, auth_vars, history_vars, pending, roles, ent_vars>>

----------------------------------------------------------------------------
(* services/enterprise_role_service.py, enterprise_user_service.py and     *)
(* enterprise_admin_service.py                                             *)

\* uuid.UUID(value) for a value that is a UUID object already (a validated
\* UUID field of a request model): the constructor calls value.replace and
\* raises AttributeError, which is no ValueError
UUID_of_object(value) == [raised |-> TRUE, hex |-> value]

\* the two kinds of value the callers pass as enterprise_client_id: the
\* UUID object of a validated request field, and the text str(UUID)
UUID_object(hex) == [object |-> hex]
str(hex) == [text |-> canonical(hex)]

\* index of the tenant's role of that name, 0 for None.  For a UUID object
\* the conversion raises and the handler answers None; for text it is
\* parsed (ValueError answers None too) and the roles are searched
get_enterprise_role_by_name_service(name, enterprise_client_id) ==
    IF "object" \in DOMAIN enterprise_client_id
    THEN LET client_uuid == UUID_of_object(enterprise_client_id.object)
         IN  IF client_uuid.raised THEN 0
             ELSE first(enterprise_roles,
                        LAMBDA role :
                            /\ role.name = name
                            /\ role.enterprise_client_id = client_uuid.hex)
    ELSE LET client_uuid == UUID(enterprise_client_id.text)
         IN  IF ~client_uuid.ok THEN 0
             ELSE first(enterprise_roles,
                        LAMBDA role :
                            /\ role.name = name
                            /\ role.enterprise_client_id = client_uuid.hex)

EntOutcome(table, response, drew) ==
    [table |-> table, resp |-> response, drew |-> drew]

EnterpriseRoleResponse(role) ==
    [id |-> role.id, name |-> role.name, is_active |-> role.is_active,
     permissions |-> json_loads(role.permissions),
     enterprise_client_id |-> role.enterprise_client_id]

create_enterprise_role_service_result(role_data) ==
    IF get_enterprise_role_by_name_service(
           role_data.name, UUID_object(role_data.enterprise_client_id)) # 0
    THEN EntOutcome(enterprise_roles,
                    Response("create_enterprise_role", 400,
                             "Role name already exists for this enterprise client",
                             NoHeaders, None), 0)
    ELSE LET role == [id |-> uuid4(uuid_count + 1),
                      name |-> role_data.name,
                      is_active |-> TRUE,
                      permissions |-> json_dumps(role_data.permissions),
                      enterprise_client_id |-> role_data.enterprise_client_id]
         IN  EntOutcome(Append(enterprise_roles, role),
                        Response("create_enterprise_role", 200, None, NoHeaders,
                                 EnterpriseRoleResponse(role)), 1)

create_enterprise_role_service(role_data) ==
    LET r == create_enterprise_role_service_result(role_data)
    IN  /\ uuid_count + r.drew <= MaxUuids
        /\ enterprise_roles' = r.table
        /\ resp' = r.resp
        /\ uuid_count' = uuid_count + r.drew
        /\ UNCHANGED <<admin_users, admin_roles, admin_permissions, auth_vars,
                       history_vars, pending, norm_vars, enterprise_users,
                       enterprise_admins>>

\* the response of an enterprise user or enterprise admin row
updated_enterprise_role(role, role_data) ==
    [f \in DOMAIN role |->
        IF f = "id" \/ ~is_set(role_data, f) THEN role[f]
        ELSE IF f = "permissions" THEN json_dumps(role_data[f])
        ELSE role_data[f]]

update_enterprise_role_service_result(role_id, role_data) ==
    LET role_uuid == UUID(role_id)
        i == first(enterprise_roles, LAMBDA role : role.id = role_uuid.hex)
    IN  IF ~role_uuid.ok
        THEN EntOutcome(enterprise_roles,
                        Response("update_enterprise_role", 400,
                                 "Invalid enterprise role ID format",
                                 NoHeaders, None), 0)
        ELSE IF i = 0
        THEN EntOutcome(enterprise_roles,
                        Response("update_enterprise_role", 404,
                                 "Enterprise role not found", NoHeaders, None),
                        0)
        ELSE IF /\ is_set(role_data, "name")
                /\ truthy(role_data.name)
                /\ role_data.name # enterprise_roles[i].name
                /\ get_enterprise_role_by_name_service(
                       role_data.name,
                       str(enterprise_roles[i].enterprise_client_id)) # 0
        THEN EntOutcome(enterprise_roles,
                        Response("update_enterprise_role", 400,
                                 "Role name already exists for this enterprise client",
                                 NoHeaders, None), 0)
        ELSE LET new == updated_enterprise_role(enterprise_roles[i], role_data)
             IN  EntOutcome(replace_row(enterprise_roles, i, new),
                            Response("update_enterprise_role", 200, None,
                                     NoHeaders, EnterpriseRoleResponse(new)),
                            0)

update_enterprise_role_service(role_id, role_data) ==
    LET r == update_enterprise_role_service_result(role_id, role_data)
    IN  /\ enterprise_roles' = r.table
        /\ resp' = r.resp
        /\ UNCHANGED <<store_vars, auth_vars, history_vars, pending, norm_vars,
                       enterprise_users, enterprise_admins>>

EnterprisePrincipalResponse(row) ==
    [id |-> row.id, email |-> row.email, username |-> row.username,
     is_active |-> row.is_active, role_ids |-> json_loads(row.role_ids),
     permissions |-> json_loads(row.permissions),
     enterprise_client_id |-> row.enterprise_client_id]

\* create_enterprise_user_service and create_enterprise_admin_service run
\* the same steps on their own table: the email and the username must be
\* new, then the row is stored with the role ids and permissions as given
create_enterprise_principal_result(op, table, data) ==
    IF first(table, LAMBDA row : row.email = data.email) # 0
    THEN EntOutcome(table,
                    Response(op, 400, "Email already exists", NoHeaders,
                             None), 0)
    ELSE IF first(table, LAMBDA row : row.username = data.username) # 0
    THEN EntOutcome(table,
                    Response(op, 400, "Username already exists", NoHeaders,
                             None), 0)
    ELSE LET row == [id |-> uuid4(uuid_count + 1),
                     email |-> data.email,
                     username |-> data.username,
                     is_active |-> TRUE,
                     password |-> get_password_hash(data.password),
                     role_ids |-> json_dumps(data.role_ids),
                     permissions |-> json_dumps(data.permissions),
                     enterprise_client_id |-> data.enterprise_client_id]
         IN  EntOutcome(Append(table, row),
                        Response(op, 200, None, NoHeaders,
                                 EnterprisePrincipalResponse(row)), 1)

create_enterprise_user_service_result(user_data) ==
    create_enterprise_principal_result("create_enterprise_user",
                                       enterprise_users, user_data)

create_enterprise_user_service(user_data) ==
    LET r == create_enterprise_user_service_result(user_data)
    IN  /\ uuid_count + r.drew <= MaxUuids
        /\ enterprise_users' = r.table
        /\ resp' = r.resp
        /\ uuid_count' = uuid_count + r.drew
        /\ UNCHANGED <<admin_users, admin_roles, admin_permissions, auth_vars,
                       history_vars, pending, norm_vars, enterprise_roles,
                       enterprise_admins>>

create_enterprise_admin_service_result(admin_data) ==
    create_enterprise_principal_result("create_enterprise_admin",
                                       enterprise_admins, admin_data)

create_enterprise_admin_service(admin_data) ==
    LET r == create_enterprise_admin_service_result(admin_data)
    IN  /\ uuid_count + r.drew <= MaxUuids
        /\ enterprise_admins' = r.table
        /\ resp' = r.resp
        /\ uuid_count' = uuid_count + r.drew
        /\ UNCHANGED <<admin_users, admin_roles, admin_permissions, auth_vars,
                       history_vars, pending, norm_vars, enterprise_roles,
                       enterprise_users>>

update_enterprise_user_service_result(user_id, user_data) ==
    LET user_uuid == UUID(user_id)
        i == first(enterprise_users, LAMBDA row : row.id = user_uuid.hex)
    IN  IF ~user_uuid.ok
        THEN EntOutcome(enterprise_users,
                        Response("update_enterprise_user", 400,
                                 "Invalid enterprise user ID format",
                                 NoHeaders, None), 0)
        ELSE IF i = 0
        THEN EntOutcome(enterprise_users,
                        Response("update_enterprise_user", 404,
                                 "Enterprise user not found", NoHeaders, None),
                        0)
        ELSE IF /\ is_set(user_data, "email")
                /\ truthy(user_data.email)
                /\ user_data.email # enterprise_users[i].email
                /\ first(enterprise_users,
                         LAMBDA row : row.email = user_data.email) # 0
        THEN EntOutcome(enterprise_users,
                        Response("update_enterprise_user", 400,
                                 "Email already exists", NoHeaders, None), 0)
        ELSE IF /\ is_set(user_data, "username")
                /\ truthy(user_data.username)
                /\ user_data.username # enterprise_users[i].username
                /\ first(enterprise_users,
                         LAMBDA row : row.username = user_data.username) # 0
        THEN EntOutcome(enterprise_users,
                        Response("update_enterprise_user", 400,
                                 "Username already exists", NoHeaders, None), 0)
        ELSE LET new == updated_user(enterprise_users[i], user_data)
             IN  EntOutcome(replace_row(enterprise_users, i, new),
                            Response("update_enterprise_user", 200, None,
                                     NoHeaders,
                                     EnterprisePrincipalResponse(new)), 0)

update_enterprise_user_service(user_id, user_data) ==
    LET r == update_enterprise_user_service_result(user_id, user_data)
    IN  /\ enterprise_users' = r.table
        /\ resp' = r.resp
        /\ UNCHANGED <<store_vars, auth_vars, history_vars, pending, norm_vars,
                       enterprise_roles, enterprise_admins>>

----------------------------------------------------------------------------
(* services/auth_service.py                                                *)

SECRET_KEY == "SECRET_KEY"
ACCESS_TOKEN_EXPIRE_MINUTES == 10080

\* a token string.  A well-formed one carries the claims sub (None when the
\* claim is absent) and exp (minutes on the clock) and the key that signed it
Token(malformed, sub, exp, key) ==
    [malformed |-> malformed, sub |-> sub, exp |-> exp, key |-> key]

\* jwt.encode(claims, key, algorithm=ALGORITHM)
jwt_encode(claims, key) == Token(FALSE, claims.sub, claims.exp, key)

\* a jwt.decode that skips the validation of exp
jwt_decode_no_exp(token, key) ==
    IF token.malformed THEN [error |-> "DecodeError", sub |-> None]
    ELSE IF token.key # key
    THEN [error |-> "InvalidSignatureError", sub |-> None]
    ELSE [error |-> "none", sub |-> token.sub]

\* jwt.decode(token, key, algorithms=[ALGORITHM]): the segments are parsed,
\* then the signature is verified, then exp is validated (a token is expired
\* once exp <= now)
jwt_decode(token, key) ==
    IF token.malformed THEN [error |-> "DecodeError", sub |-> None]
    ELSE IF token.key # key
    THEN [error |-> "InvalidSignatureError", sub |-> None]
    ELSE IF token.exp <= now
    THEN [error |-> "ExpiredSignatureError", sub |-> None]
    ELSE [error |-> "none", sub |-> token.sub]

\* a create_access_token_service whose tokens expire as they are issued
create_access_token_service_no_delta(data, expires_delta) ==
    jwt_encode([sub |-> data.sub, exp |-> now], SECRET_KEY)

create_access_token_service(data, expires_delta) ==
    jwt_encode([sub |-> data.sub, exp |-> now + expires_delta], SECRET_KEY)

\* TokenData(email) or None: ok is FALSE for None
verify_token_service(token) ==
    LET payload == jwt_decode(token, SECRET_KEY)
    IN  IF payload.error # "none" THEN [ok |-> FALSE, email |-> None]
        ELSE IF payload.sub = None THEN [ok |-> FALSE, email |-> None]
        ELSE [ok |-> TRUE, email |-> payload.sub]

\* index of the authenticated user, 0 for None
authenticate_user_service(email, password) ==
    LET i == get_admin_user_by_email_service(email)
    IN  IF i = 0 THEN 0
        ELSE IF ~admin_users[i].is_active THEN 0
        ELSE IF ~verify_user_password_service(admin_users[i], password) THEN 0
        ELSE i

Bearer == {<<"WWW-Authenticate", "Bearer">>}

\* a login that tells an inactive account from the other failures
login_user_service_result_revealing(email, password) ==
    LET i == get_admin_user_by_email_service(email)
    IN  IF i # 0 /\ ~admin_users[i].is_active
        THEN Response("login_user", 401, "Inactive user", Bearer, None)
        ELSE IF authenticate_user_service(email, password) = 0
        THEN Response("login_user", 401, "Incorrect email or password",
                      Bearer, None)
        ELSE Response("login_user", 200, None, NoHeaders,
                      [access_token |->
                          jwt_encode([sub |-> admin_users[i].email,
                                      exp |-> now + ACCESS_TOKEN_EXPIRE_MINUTES],
                                     SECRET_KEY),
                       token_type |-> "bearer"])

login_user_service_result(email, password) ==
    LET i == authenticate_user_service(email, password)
    IN  IF i = 0
        THEN Response("login_user", 401, "Incorrect email or password",
                      Bearer, None)
        ELSE Response("login_user", 200, None, NoHeaders,
                      [access_token |->
                          create_access_token_service(
                              [sub |-> admin_users[i].email],
                              ACCESS_TOKEN_EXPIRE_MINUTES),
                       token_type |-> "bearer"])

\* get_admin_user_by_email_service as its callers see it: a failing query is
\* caught and answered with None
lookup_by_email(email, db_ok) ==
    IF db_ok THEN get_admin_user_by_email_service(email) ELSE 0

\* a get_current_admin_user_service that does not look at is_active
get_current_admin_user_service_result_any(token, db_ok) ==
    LET payload == verify_token_service(token)
        i == lookup_by_email(payload.email, db_ok)
    IN  IF ~payload.ok
        THEN Response("get_current_admin_user", 401,
                      "Could not validate credentials", Bearer, None)
        ELSE IF i = 0
        THEN Response("get_current_admin_user", 401, "User not found",
                      Bearer, None)
        ELSE Response("get_current_admin_user", 200, None, NoHeaders,
                      admin_users[i])

get_current_admin_user_service_result(token, db_ok) ==
    LET payload == verify_token_service(token)
        i == lookup_by_email(payload.email, db_ok)
    IN  IF ~payload.ok
        THEN Response("get_current_admin_user", 401,
                      "Could not validate credentials", Bearer, None)
        ELSE IF payload.email = None
        THEN Response("get_current_admin_user", 401,
                      "Invalid token payload", Bearer, None)
        ELSE IF i = 0
        THEN Response("get_current_admin_user", 401, "User not found",
                      Bearer, None)
        ELSE IF ~admin_users[i].is_active
        THEN Response("get_current_admin_user", 401, "Inactive user",
                      Bearer, None)
        ELSE Response("get_current_admin_user", 200, None, NoHeaders,
                      admin_users[i])

login_user_service(email, password) ==
    LET r == login_user_service_result(email, password)
        i == authenticate_user_service(email, password)
    IN  /\ resp' = r
        /\ request' = [op |-> "login_user", email |-> email,
                       password |-> password]
        /\ issued' = IF r.status = 200
                     THEN issued \cup {[token |-> r.body.access_token,
                                        to |-> admin_users[i].id,
                                        untouched |-> TRUE]}
                     ELSE issued
        /\ Cardinality({t.token : t \in issued'}) <= MaxTokens
        /\ UNCHANGED <<store_vars, now, history_vars, pending,
                       norm_vars, ent_vars>>

get_current_admin_user_service(token, db_ok) ==
    /\ resp' = get_current_admin_user_service_result(token, db_ok)
    /\ request' = [op |-> "get_current_admin_user", token |-> token,
                   db_ok |-> db_ok]
    /\ UNCHANGED <<store_vars, now, issued, history_vars, pending,
                       norm_vars, ent_vars>>


\* the Request object of the framework: it carries the headers of the
\* request and has no attribute "credentials"
Request(authorization) == [headers |-> authorization]

\* get_current_user_service(credentials, db): credentials.credentials is
\* read inside the try; on a value without that attribute the read raises
\* AttributeError, which the last except answers with 401
get_current_user_service_result(credentials) ==
    IF "credentials" \notin DOMAIN credentials
    THEN Response("get_current_user", 401, "Could not validate credentials",
                  Bearer, None)
    ELSE LET payload == verify_token_service(credentials.credentials)
             i == get_admin_user_by_email_service(payload.email)
         IN  IF ~payload.ok
             THEN Response("get_current_user", 401,
                           "Could not validate credentials", Bearer, None)
             ELSE IF i = 0
             THEN Response("get_current_user", 401, "User not found",
                           Bearer, None)
             ELSE IF ~admin_users[i].is_active
             THEN Response("get_current_user", 401, "Inactive user",
                           Bearer, None)
             ELSE Response("get_current_user", 200, None, NoHeaders,
                           admin_users[i])


\* a change_password_service that does not verify the current password
change_password_service_result_unverified(current_user, current_password, new_password) ==
    LET i == first(admin_users, LAMBDA u : u.id = current_user.id)
    IN  Outcome(replace_row(admin_users, i,
                    [current_user EXCEPT
                        !.password = get_password_hash(new_password)]),
                Response("change_password", 200, None, NoHeaders,
                         [message |-> "Password changed successfully"]),
                0)

\* change_password_service(current_user, current_password, new_password,
\* db): current_user is the row the session holds for the caller
change_password_service_result(current_user, current_password, new_password) ==
    LET i == first(admin_users, LAMBDA u : u.id = current_user.id)
    IN  IF ~verify_user_password_service(current_user, current_password)
        THEN Outcome(admin_users,
                     Response("change_password", 400,
                              "Current password is incorrect", NoHeaders,
                              None),
                     0)
        ELSE Outcome(replace_row(admin_users, i,
                         [current_user EXCEPT
                             !.password = get_password_hash(new_password)]),
                     Response("change_password", 200, None, NoHeaders,
                              [message |-> "Password changed successfully"]),
                     0)

change_password_service(current_user, current_password, new_password) ==
    LET r == change_password_service_result(current_user, current_password,
                                            new_password)
    IN  /\ admin_users' = r.users
        /\ resp' = r.resp
        /\ request' = [op |-> "change_password",
                       user_id |-> current_user.id,
                       current_password |-> current_password,
                       new_password |-> new_password]
        /\ issued' = IF r.resp.status = 200 THEN touched(current_user.id)
                     ELSE issued
        /\ UNCHANGED <<admin_roles, admin_permissions, uuid_count, now,
                       history_vars, pending, norm_vars, ent_vars>>


\* a refresh whose token names the username of the user
refresh_token_service_result_username(current_user) ==
    Response("refresh_token", 200, None, NoHeaders,
             [access_token |->
                 create_access_token_service(
                     [sub |-> current_user.username],
                     ACCESS_TOKEN_EXPIRE_MINUTES),
              token_type |-> "bearer"])

\* refresh_token_service(current_user): a token for the email of the user
\* it is given, with the full lifetime from now
refresh_token_service_result(current_user) ==
    Response("refresh_token", 200, None, NoHeaders,
             [access_token |->
                 create_access_token_service(
                     [sub |-> current_user.email],
                     ACCESS_TOKEN_EXPIRE_MINUTES),
              token_type |-> "bearer"])

refresh_token_service(current_user) ==
    LET r == refresh_token_service_result(current_user)
    IN  /\ resp' = r
        /\ request' = [op |-> "refresh_token", user_id |-> current_user.id]
        /\ issued' = issued \cup {[token |-> r.body.access_token,
                                   to |-> current_user.id,
                                   untouched |-> TRUE]}
        /\ Cardinality({t.token : t \in issued'}) <= MaxTokens
        /\ UNCHANGED <<store_vars, now, history_vars, pending, norm_vars,
                       ent_vars>>

\* a logout that ends the sessions of the user by deactivating it
logout_user_service_deactivating(current_user) ==
    LET i == first(admin_users, LAMBDA u : u.id = current_user.id)
    IN  /\ resp' = Response("logout_user", 200, None, NoHeaders,
                            [message |-> "Successfully logged out"])
        /\ request' = [op |-> "logout_user", user_id |-> current_user.id]
        /\ admin_users' = replace_row(admin_users, i,
                               [current_user EXCEPT !.is_active = FALSE])
        /\ UNCHANGED <<admin_roles, admin_permissions, uuid_count, now,
                       issued, history_vars, pending, norm_vars, ent_vars>>

\* logout_user_service(current_user): a message, and nothing else
logout_user_service_result(current_user) ==
    Response("logout_user", 200, None, NoHeaders,
             [message |-> "Successfully logged out"])

logout_user_service(current_user) ==
    /\ resp' = logout_user_service_result(current_user)
    /\ request' = [op |-> "logout_user", user_id |-> current_user.id]
    /\ UNCHANGED <<store_vars, now, issued, history_vars, pending, norm_vars,
                   ent_vars>>

----------------------------------------------------------------------------
(* controllers/auth_controller.py                                          *)

\* login_user: the token of login_user_service, then the user is
\* authenticated once more and its row projected into the LoginResponse;
\* role_ids and permissions are the decoded columns of the row
login_user_result(email, password) ==
    LET token == login_user_service_result(email, password)
        user == authenticate_user_service(email, password)
    IN  IF token.status # 200
        THEN Response("login", token.status, token.detail, token.headers,
                      None)
        ELSE IF user = 0
        THEN Response("login", 401, "Incorrect email or password", Bearer,
                      None)
        ELSE Response("login", 200, None, NoHeaders,
                      [access_token |-> token.body.access_token,
                       token_type |-> token.body.token_type,
                       user_id |-> admin_users[user].id,
                       email |-> admin_users[user].email,
                       username |-> admin_users[user].username,
                       role_ids |-> json_loads(admin_users[user].role_ids),
                       permissions |->
                           json_loads(admin_users[user].permissions),
                       user_type |-> "admin"])

login_user(email, password) ==
    LET r == login_user_result(email, password)
    IN  /\ resp' = r
        /\ request' = [op |-> "login", email |-> email,
                       password |-> password]
        /\ issued' = IF r.status = 200
                     THEN issued \cup {[token |-> r.body.access_token,
                                        to |-> r.body.user_id,
                                        untouched |-> TRUE]}
                     ELSE issued
        /\ Cardinality({t.token : t \in issued'}) <= MaxTokens
        /\ UNCHANGED <<store_vars, now, history_vars, pending, norm_vars, ent_vars>>


\* get_current_user(request: Request, db): the Request object is handed to
\* get_current_user_service in the place of the credentials
get_current_user_result(request_object) ==
    get_current_user_service_result(request_object)

----------------------------------------------------------------------------
(* routes/*.py: the endpoints with the dependencies their signatures name  *)

\* the Authorization header of a request: absent, or "Bearer <credentials>"
NoAuthorization == [scheme |-> "none"]
BearerToken(token) == [scheme |-> "Bearer", credentials |-> token]

\* security = HTTPBearer(): a request without the header is refused with
\* "Not authenticated".  The status depends on the installed FastAPI: 403
\* in the older releases, 401 with a WWW-Authenticate header in the newer.
security(op, authorization) ==
    IF authorization.scheme # "Bearer"
    THEN {[ok |-> FALSE, credentials |-> None,
           resp |-> Response(op, s, "Not authenticated",
                             IF s = 401 THEN Bearer ELSE NoHeaders, None)]
          : s \in {401, 403}}
    ELSE {[ok |-> TRUE, credentials |-> authorization.credentials,
           resp |-> NoResponse]}

\* require_admin_user_service(current_user): the user that
\* get_current_admin_user_service resolved is handed on as it is
require_admin_user_service(current_user) == current_user

\* Depends(require_admin_user): security, get_current_admin_user_service,
\* require_admin_user_service.  ok is FALSE when the chain answered itself.
require_admin_user(op, authorization) ==
    { IF ~c.ok THEN [ok |-> FALSE, resp |-> c.resp, current_user |-> None]
      ELSE LET r == get_current_admin_user_service_result(c.credentials, TRUE)
           IN  IF r.status # 200
               THEN [ok |-> FALSE,
                     resp |-> Response(op, r.status, r.detail, r.headers,
                                       None),
                     current_user |-> None]
               ELSE [ok |-> TRUE, resp |-> NoResponse,
                     current_user |-> require_admin_user_service(r.body)]
      : c \in security(op, authorization) }

\* what an endpoint makes of a request: the tables after it, the uuid4()
\* values drawn, the response, and whether the endpoint function was called
HttpOutcome(users, table, principals, drew, response, called) ==
    [admin_users |-> users, admin_roles |-> table,
     enterprise_users |-> principals, drew |-> drew, resp |-> response,
     called |-> called]

\* the request was answered by a dependency
refused(response) ==
    HttpOutcome(admin_users, admin_roles, enterprise_users, 0, response,
                FALSE)

\* the lists a listing may answer with: one entry of choices[i] per row
listings(choices) ==
    {l \in [DOMAIN choices -> UNION Range(choices)] :
        \A i \in DOMAIN choices : l[i] \in choices[i]}

get_all_admin_users_service_results ==
    {Response("get_all_admin_users", 200, None, NoHeaders, l)
     : l \in listings([i \in DOMAIN admin_users |->
                        {AdminUserResponse(admin_users[i], permissions)
                         : permissions \in
                             _get_user_permissions_from_roles(admin_users[i])}])}

get_all_admin_roles_service_result ==
    Response("get_all_admin_roles", 200, None, NoHeaders,
             [i \in DOMAIN admin_roles |-> AdminRoleResponse(admin_roles[i])])

get_all_admin_permissions_service_result ==
    Response("get_all_admin_permissions", 200, None, NoHeaders,
             [i \in DOMAIN admin_permissions |->
                AdminPermissionResponse(admin_permissions[i])])

\* POST /users: db is the only dependency
create_admin_user_endpoint_results(authorization, user_data) ==
    {HttpOutcome(r.users, admin_roles, enterprise_users, r.drew, r.resp, TRUE)
     : r \in create_admin_user_service_results(user_data)}

\* GET /users: db is the only dependency
get_admin_users_endpoint_results(authorization) ==
    {HttpOutcome(admin_users, admin_roles, enterprise_users, 0, r, TRUE)
     : r \in get_all_admin_users_service_results}

\* POST /roles: db and current_user = Depends(require_admin_user)
create_admin_role_endpoint_results(authorization, role_data) ==
    { IF ~g.ok THEN refused(g.resp)
      ELSE LET r == create_admin_role_service_result(role_data)
           IN  HttpOutcome(admin_users, r.roles, enterprise_users, r.drew,
                           r.resp, TRUE)
      : g \in require_admin_user("create_admin_role", authorization) }

\* GET /roles: db and current_user = Depends(require_admin_user)
get_admin_roles_endpoint_results(authorization) ==
    { IF ~g.ok THEN refused(g.resp)
      ELSE HttpOutcome(admin_users, admin_roles, enterprise_users, 0,
                       get_all_admin_roles_service_result, TRUE)
      : g \in require_admin_user("get_all_admin_roles", authorization) }

\* GET /permissions: db and current_user = Depends(require_admin_user)
get_admin_permissions_endpoint_results(authorization) ==
    { IF ~g.ok THEN refused(g.resp)
      ELSE HttpOutcome(admin_users, admin_roles, enterprise_users, 0,
                       get_all_admin_permissions_service_result, TRUE)
      : g \in require_admin_user("get_all_admin_permissions", authorization) }

\* POST /enterprise-users: db is the only dependency
create_enterprise_user_endpoint_results(authorization, user_data) ==
    LET r == create_enterprise_user_service_result(user_data)
    IN  {HttpOutcome(admin_users, admin_roles, r.table, r.drew, r.resp, TRUE)}

\* the application answers a request with one of the endpoint's outcomes
serve(path, authorization, results) ==
    \E r \in results :
        /\ uuid_count + r.drew <= MaxUuids
        /\ admin_users' = r.admin_users
        /\ admin_roles' = r.admin_roles
        /\ enterprise_users' = r.enterprise_users
        /\ uuid_count' = uuid_count + r.drew
        /\ resp' = r.resp
        /\ request' = [op |-> path, authorization |-> authorization,
                       called |-> r.called]
        /\ UNCHANGED <<admin_permissions, now, issued, history_vars, pending,
                       norm_vars, enterprise_roles, enterprise_admins>>

create_admin_user_endpoint(authorization, user_data) ==
    serve("POST /users", authorization,
          create_admin_user_endpoint_results(authorization, user_data))

get_admin_users_endpoint(authorization) ==
    serve("GET /users", authorization,
          get_admin_users_endpoint_results(authorization))

create_admin_role_endpoint(authorization, role_data) ==
    serve("POST /roles", authorization,
          create_admin_role_endpoint_results(authorization, role_data))

get_admin_roles_endpoint(authorization) ==
    serve("GET /roles", authorization,
          get_admin_roles_endpoint_results(authorization))

get_admin_permissions_endpoint(authorization) ==
    serve("GET /permissions", authorization,
          get_admin_permissions_endpoint_results(authorization))

create_enterprise_user_endpoint(authorization, user_data) ==
    serve("POST /enterprise-users", authorization,
          create_enterprise_user_endpoint_results(authorization, user_data))


\* GET /auth/me: current_user = Depends(get_current_user); the profile of
\* an administrator, its id written as str(UUID)
get_current_user_info_result(authorization) ==
    LET c == get_current_user_result(Request(authorization))
    IN  IF c.status # 200
        THEN Response("GET /auth/me", c.status, c.detail, c.headers, None)
        ELSE Response("GET /auth/me", 200, None, NoHeaders,
                      [user_id |-> canonical(c.body.id),
                       email |-> c.body.email,
                       username |-> c.body.username,
                       user_type |-> "admin",
                       is_active |-> c.body.is_active])

get_current_user_info(authorization) ==
    /\ resp' = get_current_user_info_result(authorization)
    /\ request' = [op |-> "GET /auth/me", authorization |-> authorization]
    /\ UNCHANGED <<store_vars, now, issued, history_vars, pending, norm_vars,
                   ent_vars>>

----------------------------------------------------------------------------
(* Specification of authentication: administrators log in, present tokens, *)
(* are deactivated, activated, updated and deleted, while the clock runs.  *)

\* the clock is read at the start and just before, at and just after one
\* token lifetime has passed
Times ==
    {0, ACCESS_TOKEN_EXPIRE_MINUTES - 1, ACCESS_TOKEN_EXPIRE_MINUTES,
     ACCESS_TOKEN_EXPIRE_MINUTES + 1}

Tick ==
    /\ \E t \in Times : t > now /\ now' = t
    /\ UNCHANGED <<store_vars, resp, issued, request, history_vars, pending,
                       norm_vars, ent_vars>>

Emails == {"mainadmin@example.com", "nobody@x.com"}
Passwords == {"mainadmin123", "wrongpass"}

\* tokens the server never issued: text that is no JWT, a JWT signed with
\* another key, a JWT without a sub claim
NeverExpires == 3 * ACCESS_TOKEN_EXPIRE_MINUTES
ForgedTokens ==
    {Token(TRUE, None, 0, "none"),
     Token(FALSE, "mainadmin@example.com", NeverExpires, "another key"),
     Token(FALSE, None, NeverExpires, SECRET_KEY)}

\* every token string of the model
Tokens ==
    {Token(FALSE, sub, exp, key) :
        sub \in Emails \cup {None},
        exp \in {t + ACCESS_TOKEN_EXPIRE_MINUTES : t \in Times}
                    \cup {NeverExpires},
        key \in {SECRET_KEY, "another key"}}
    \cup {Token(TRUE, None, 0, "none")}

\* the seeded administrator by key and by position
AuthUserIdStrings == {SeedUserId, <<"1">>}

InitAuth == InitSeeded

NextAuth ==
    \/ \E e \in Emails, p \in Passwords : login_user_service(e, p)
    \/ \E t \in {i.token : i \in issued} \cup ForgedTokens, db_ok \in BOOLEAN :
            get_current_admin_user_service(t, db_ok)
    \/ \E id \in AuthUserIdStrings : deactivate_user_service(id)
    \/ \E id \in AuthUserIdStrings : activate_user_service(id)
    \/ \E id \in AuthUserIdStrings, b \in BOOLEAN :
            update_admin_user_service(id, [is_active |-> b])
    \/ \E id \in AuthUserIdStrings : delete_admin_user_service(id)
    \/ Tick

SpecAuth == InitAuth /\ [][NextAuth]_vars

----------------------------------------------------------------------------
(* Specification of the normalized role model: roles are created, updated  *)
(* and deleted through controllers/role_controller.py.                     *)

SomeScopeId == <<"d", "1">>

NormRoleNames == {"system_admin", "editor"}

NewRolePayloads ==
    {[name |-> n, description |-> "d", is_system_role |-> b] :
        n \in NormRoleNames, b \in BOOLEAN}

NewRoleWithScopesPayloads ==
    {[name |-> n, description |-> "d", is_system_role |-> b,
      scope_ids |-> l] :
        n \in NormRoleNames, b \in BOOLEAN, l \in {<<>>, <<SomeScopeId>>}}

RoleUpdatePayloads ==
    {[name |-> "renamed"], [name |-> "editor"], [description |-> "changed"],
     [is_system_role |-> TRUE], [is_system_role |-> FALSE],
     [name |-> "renamed", description |-> "changed",
      is_system_role |-> FALSE]}

\* id strings a request may carry: a key, its hyphenated text, a key that
\* may not exist, text that is no UUID
NormRoleIdStrings == {uuid4(1), canonical(uuid4(1)), uuid4(2), <<"z">>}

InitNorm == InitSeeded

NextNorm ==
    \/ \E d \in NewRolePayloads : create_role(d)
    \/ \E d \in NewRoleWithScopesPayloads : create_role_with_scopes(d)
    \/ \E id \in NormRoleIdStrings, d \in RoleUpdatePayloads :
            update_role(id, d)
    \/ \E id \in NormRoleIdStrings : delete_role(id)

SpecNorm == InitNorm /\ [][NextNorm]_vars

----------------------------------------------------------------------------
(* Specification of the enterprise tables: roles, users and admins of two  *)
(* tenants are created, and users are re-assigned.                         *)

TenantA == <<"e", "1">>
TenantB == <<"e", "2">>
Tenants == {TenantA, TenantB}

\* role-id lists of the request payloads: none, the first role created (by
\* its key or the hyphenated text of its key)
EntRoleIdLists == {<<>>, <<uuid4(1)>>, <<canonical(uuid4(1))>>}

NewEnterpriseRolePayloads ==
    {[name |-> "finance", permissions |-> <<SeedPermB1>>,
      enterprise_client_id |-> t] : t \in Tenants}

NewEnterprisePrincipalPayloads ==
    {[email |-> "u@tenant.com", username |-> "u", password |-> "password",
      role_ids |-> l, permissions |-> <<>>, enterprise_client_id |-> t] :
        l \in EntRoleIdLists, t \in Tenants}

EntUserIdStrings == {uuid4(1), uuid4(2), canonical(uuid4(2)), <<"z">>}

InitEnt == InitSeeded

NextEnt ==
    \/ \E d \in NewEnterpriseRolePayloads : create_enterprise_role_service(d)
    \/ \E d \in NewEnterprisePrincipalPayloads :
            create_enterprise_user_service(d)
    \/ \E d \in NewEnterprisePrincipalPayloads :
            create_enterprise_admin_service(d)
    \/ \E id \in EntUserIdStrings, l \in EntRoleIdLists :
            update_enterprise_user_service(id, [role_ids |-> l])

SpecEnt == InitEnt /\ [][NextEnt]_vars

----------------------------------------------------------------------------
(* Specification of the HTTP surface: clients log in and call the user,    *)
(* role, permission and enterprise-user endpoints with and without a token. *)

\* a new administrator without roles or permissions, a new role, a new
\* enterprise user
HttpUserPayloads ==
    {[email |-> "new@example.com", username |-> "new", password |-> "pw",
      role_ids |-> <<>>, permissions |-> <<>>]}
HttpRolePayloads ==
    {[name |-> "support", is_active |-> TRUE, permissions |-> <<SeedPermB2>>]}
HttpEnterpriseUserPayloads ==
    {[email |-> "u@e1.com", username |-> "u", password |-> "pw",
      role_ids |-> <<>>, permissions |-> <<>>,
      enterprise_client_id |-> TenantA]}

HttpLogins ==
    {[email |-> "mainadmin@example.com", password |-> "mainadmin123"],
     [email |-> "new@example.com", password |-> "pw"],
     [email |-> "new@example.com", password |-> "wrongpass"]}

\* the headers a client sends: none, a token it was issued, text that is
\* no token
Authorizations ==
    {NoAuthorization, BearerToken(Token(TRUE, None, 0, "none"))}
    \cup {BearerToken(i.token) : i \in issued}

InitHttp == InitSeeded

NextHttp ==
    \/ \E l \in HttpLogins : login_user_service(l.email, l.password)
    \/ \E a \in Authorizations, d \in HttpUserPayloads :
            create_admin_user_endpoint(a, d)
    \/ \E a \in Authorizations : get_admin_users_endpoint(a)
    \/ \E a \in Authorizations, d \in HttpRolePayloads :
            create_admin_role_endpoint(a, d)
    \/ \E a \in Authorizations : get_admin_roles_endpoint(a)
    \/ \E a \in Authorizations : get_admin_permissions_endpoint(a)
    \/ \E a \in Authorizations, d \in HttpEnterpriseUserPayloads :
            create_enterprise_user_endpoint(a, d)

SpecHttp == InitHttp /\ [][NextHttp]_vars

----------------------------------------------------------------------------
(* Specification of the permission resolver: admin users and admin roles   *)
(* are created, re-assigned and deleted, and users are read back.          *)

\* permission lists and role-id lists of the request payloads
PermissionLists == {<<>>, <<SeedPermB1>>, <<SeedPermB2, SeedPermB1>>}
RoleIdLists ==
    {<<>>, <<canonical(SeedRoleId), SeedRoleId>>,
     <<uuid4(1), SeedRoleId>>, <<canonical(uuid4(1)), uuid4(1)>>}

\* id strings a request may carry for a row: its key, the canonical
\* hyphenated text of the key, a position (the created user is listed
\* second), a position past the end
UserIdStrings == {uuid4(2), <<"2">>, <<"9">>}
RoleIdStrings == {SeedRoleId, canonical(uuid4(1)), <<"z">>}

\* the identities a create request may name: a new one, and the two that
\* collide with the seeded administrator
NewIdentities ==
    {[email |-> "new@example.com", username |-> "new"],
     [email |-> "mainadmin@example.com", username |-> "new"],
     [email |-> "new@example.com", username |-> "mainadmin"]}

NewUserPayloads ==
    {[email |-> i.email, username |-> i.username, password |-> "pw",
      role_ids |-> l, permissions |-> p]
        : i \in NewIdentities, l \in RoleIdLists, p \in PermissionLists}

InitResolver == InitSeeded

NextResolver ==
    \/ \E d \in NewUserPayloads : create_admin_user_service(d)
    \/ \E id \in UserIdStrings, l \in RoleIdLists :
            update_admin_user_service(id, [role_ids |-> l])
    \/ \E id \in UserIdStrings, l \in PermissionLists :
            update_admin_user_service(id, [permissions |-> l])
    \/ \E id \in UserIdStrings : get_admin_user_by_id_service(id)
    \/ \E l \in PermissionLists :
            create_admin_role_service(
                [name |-> "support", is_active |-> TRUE, permissions |-> l])
    \/ \E id \in RoleIdStrings, l \in PermissionLists :
            update_admin_role_service(id, [permissions |-> l])
    \/ \E id \in RoleIdStrings : delete_admin_role_service(id)

SpecResolver == InitResolver /\ [][NextResolver]_vars

----------------------------------------------------------------------------
(* Claims about the resolver, checked under SpecResolver.                  *)

NoDuplicates(list) ==
    \A i, j \in DOMAIN list : list[i] = list[j] => i = j

\* the roles of the catalog that a list of role ids names (an id names the
\* role whose key it is once its hyphens are removed)
RolesNamed(role_ids) ==
    {admin_roles[r] : r \in {k \in DOMAIN admin_roles :
        \E n \in DOMAIN role_ids :
            strip_hyphens(role_ids[n]) = admin_roles[k].id}}

\* the union of a user's direct permission ids and those of its roles
UnionOfDirectAndRoles(user) ==
    Range(json_loads(user.permissions)) \cup
    UNION {Range(json_loads(role.permissions)) :
            role \in RolesNamed(json_loads(user.role_ids))}

\* the user row with every role id listed a second time
WithRolesListedTwice(user) ==
    [user EXCEPT !.role_ids =
        json_dumps(json_loads(user.role_ids) \o json_loads(user.role_ids))]

\* C1: for every admin user, each list the resolver can return holds exactly
\* the union of the user's stored direct permission ids and the permission
\* ids of the catalog roles its role_ids name, no id twice; listing role
\* ids twice changes nothing; get_admin_user_by_id_service returns such a
\* list.
C1_ResolveIsDeduplicatedUnion ==
    /\ \A i \in DOMAIN admin_users :
          LET user == admin_users[i]
          IN  /\ \A permissions \in _get_user_permissions_from_roles(user) :
                    /\ Range(permissions) = UnionOfDirectAndRoles(user)
                    /\ NoDuplicates(permissions)
              /\ {Range(l) : l \in _get_user_permissions_from_roles(
                                        WithRolesListedTwice(user))}
                    = {Range(l) : l \in _get_user_permissions_from_roles(user)}
              /\ \A l \in _get_user_permissions_from_roles(
                                        WithRolesListedTwice(user)) :
                    NoDuplicates(l)
    /\ (resp.op = "get_admin_user_by_id" /\ resp.status = 200) =>
          \E i \in DOMAIN admin_users :
              /\ admin_users[i].id = resp.body.id
              /\ Range(resp.body.permissions)
                    = UnionOfDirectAndRoles(admin_users[i])
              /\ NoDuplicates(resp.body.permissions)

\* C1 witness: a user that lists the seeded role twice (once hyphenated) and
\* holds a direct permission the role grants too has been read back, with
\* both of the role's permissions resolved.
C1_Witness ==
    /\ resp.op = "get_admin_user_by_id" /\ resp.status = 200
    /\ resp.body.role_ids = <<canonical(SeedRoleId), SeedRoleId>>
    /\ \E i \in DOMAIN admin_users :
          /\ admin_users[i].id = resp.body.id
          /\ SeedPermB1 \in Range(json_loads(admin_users[i].permissions))
    /\ \E r \in DOMAIN admin_roles :
          /\ admin_roles[r].id = SeedRoleId
          /\ SeedPermB1 \in Range(json_loads(admin_roles[r].permissions))
    /\ Range(resp.body.permissions) = {SeedPermB1, SeedPermB2}


----------------------------------------------------------------------------
(* Claims about authentication, checked under SpecAuth.                    *)

\* the users among `ids` get no access: every token whose subject is the
\* user's email is refused with 401, whether or not the lookup works, and no
\* password authenticates the user
GetNoAccess(ids) ==
    \A i \in DOMAIN admin_users :
        admin_users[i].id \in ids =>
            /\ \A token \in Tokens, db_ok \in BOOLEAN :
                  token.sub = admin_users[i].email =>
                      get_current_admin_user_service_result(token, db_ok).status
                          = 401
            /\ \A p \in Passwords :
                  authenticate_user_service(admin_users[i].email, p) = 0

\* C2 as stated: a user deactivated by deactivate_user_service gets no access
\* until a later activate_user_service.  An update_admin_user_service that
\* sets is_active gives access back without it.
C2_NoAccessUntilActivate == GetNoAccess(deactivated)

\* C2: a user deactivated by deactivate_user_service gets no access until a
\* later activate_user_service or update_admin_user_service with is_active
\* true: every token whose subject is the user's email (those issued before
\* the deactivation too) is refused with 401 and the correct password does
\* not authenticate.
C2_NoAccessWhileSuspended == GetNoAccess(suspended)

\* C2 witness: a token issued to the administrator before the deactivation
\* and not yet expired has just been refused because the account is
\* inactive, and the correct password is refused too.
C2_Witness ==
    /\ resp.op = "get_current_admin_user" /\ resp.status = 401
    /\ resp.detail = "Inactive user"
    /\ request.token \in {t.token : t \in issued}
    /\ request.token.exp > now
    /\ \E i \in DOMAIN admin_users :
          /\ admin_users[i].id \in suspended
          /\ admin_users[i].email = request.token.sub
          /\ verify_password("mainadmin123", admin_users[i].password)
          /\ authenticate_user_service(admin_users[i].email, "mainadmin123") = 0


\* why a login with these inputs fails, "none" when nothing stands in its way
FailureCause(email, password) ==
    LET rows == {i \in DOMAIN admin_users : admin_users[i].email = email}
    IN  IF rows = {} THEN "unknown email"
        ELSE IF \A i \in rows : ~admin_users[i].is_active
        THEN "inactive account"
        ELSE IF \A i \in rows : ~verify_password(password,
                                                 admin_users[i].password)
        THEN "wrong password"
        ELSE "none"

\* the one failure a caller of login sees
InvalidCredentials ==
    [status |-> 401, detail |-> "Incorrect email or password",
     headers |-> Bearer, body |-> None]

Visible(r) ==
    [status |-> r.status, detail |-> r.detail, headers |-> r.headers,
     body |-> r.body]

\* C8: login_user_service answers an unknown email, an inactive account and
\* a wrong password with one and the same response (status 401, same detail,
\* same headers), in every state; two failing logins cannot be told apart.
C8_LoginFailuresIdentical ==
    /\ \A e \in Emails, p \in Passwords :
          FailureCause(e, p) # "none" =>
              Visible(login_user_service_result(e, p)) = InvalidCredentials
    /\ \A e1 \in Emails, e2 \in Emails, p1 \in Passwords, p2 \in Passwords :
          (FailureCause(e1, p1) # "none" /\ FailureCause(e2, p2) # "none") =>
              login_user_service_result(e1, p1)
                  = login_user_service_result(e2, p2)
    /\ (resp.op = "login_user" /\ resp.status # 200) =>
          Visible(resp) = InvalidCredentials

\* C8 witness: the administrator, deactivated, has just logged in with the
\* correct password and got the response an unknown email gets.
C8_Witness ==
    /\ resp.op = "login_user" /\ resp.status = 401
    /\ FailureCause(request.email, request.password) = "inactive account"
    /\ \E i \in DOMAIN admin_users :
          /\ admin_users[i].email = request.email
          /\ verify_password(request.password, admin_users[i].password)
    /\ FailureCause("nobody@x.com", "wrongpass") = "unknown email"
    /\ resp = login_user_service_result("nobody@x.com", "wrongpass")

\* C9: an active user's email and correct password log in and return a
\* bearer token; a token login returned, presented before its expiry while
\* the user's row is untouched since, is accepted and yields the user it was
\* issued to, whose email is the token's subject.
C9_LoginRoundTrip ==
    /\ \A i \in DOMAIN admin_users, p \in Passwords :
          (admin_users[i].is_active
              /\ verify_password(p, admin_users[i].password)) =>
              LET r == login_user_service_result(admin_users[i].email, p)
              IN  /\ r.status = 200
                  /\ r.body.token_type = "bearer"
                  /\ get_current_admin_user_service_result(
                        r.body.access_token, TRUE).status = 200
                  /\ get_current_admin_user_service_result(
                        r.body.access_token, TRUE).body.email
                        = admin_users[i].email
    /\ \A t \in issued :
          (t.untouched /\ now < t.token.exp) =>
              LET r == get_current_admin_user_service_result(t.token, TRUE)
              IN  /\ r.status = 200
                  /\ r.body.email = t.token.sub
                  /\ r.body.id = t.to
    /\ (/\ resp.op = "get_current_admin_user"
        /\ request.db_ok
        /\ \E t \in issued : /\ t.token = request.token
                             /\ t.untouched
                             /\ now < t.token.exp) =>
          /\ resp.status = 200
          /\ resp.body.email = request.token.sub

\* C9 witness: a token issued at login has been presented one minute before
\* its expiry, the user untouched since, and was accepted.
C9_Witness ==
    /\ resp.op = "get_current_admin_user" /\ resp.status = 200
    /\ \E t \in issued : /\ t.token = request.token
                         /\ t.untouched
                         /\ t.token.exp = now + 1
    /\ resp.body.email = "mainadmin@example.com"

\* a token that is malformed, wrongly signed, expired or without a subject
BadToken(token) ==
    \/ token.malformed
    \/ token.key # SECRET_KEY
    \/ token.exp <= now
    \/ token.sub = None

Malformed == Token(TRUE, None, 0, "none")

\* C10: get_current_admin_user_service refuses every malformed, wrongly
\* signed, expired or subject-less token with 401, an expired one exactly as
\* a malformed one; whatever the token and whether or not the lookup works,
\* the answer is 200 or 401, and a principal is returned only for a good
\* token of an active user.
C10_BadTokensRejected ==
    /\ \A token \in Tokens, db_ok \in BOOLEAN :
          LET r == get_current_admin_user_service_result(token, db_ok)
          IN  /\ BadToken(token) => r.status = 401
              /\ (~token.malformed /\ token.key = SECRET_KEY
                    /\ token.exp <= now) =>
                    r = get_current_admin_user_service_result(Malformed, db_ok)
              /\ r.status \in {200, 401}
              /\ r.status = 200 =>
                    /\ ~BadToken(token) /\ db_ok
                    /\ \E i \in DOMAIN admin_users :
                          /\ admin_users[i] = r.body
                          /\ admin_users[i].is_active
                          /\ admin_users[i].email = token.sub
    /\ resp.op = "get_current_admin_user" =>
          /\ resp.status \in {200, 401}
          /\ (request.token.malformed \/ request.token.key # SECRET_KEY
                \/ request.token.sub = None \/ ~request.db_ok) =>
                resp.status = 401

\* C10 witness: a token issued at login to an administrator who is still
\* active has been presented at its expiry and was refused as a malformed
\* token is.
C10_Witness ==
    /\ resp.op = "get_current_admin_user" /\ resp.status = 401
    /\ request.token \in {t.token : t \in issued}
    /\ request.token.exp = now
    /\ request.db_ok
    /\ \E i \in DOMAIN admin_users :
          /\ admin_users[i].email = request.token.sub
          /\ admin_users[i].is_active
    /\ resp = get_current_admin_user_service_result(Malformed, TRUE)


----------------------------------------------------------------------------
(* Claims about the normalized role model, checked under SpecNorm.         *)

ClientError(status) == 400 <= status /\ status <= 499

\* the id strings that denote a row of roles: its key and the hyphenated
\* text of the key
IdStringsOf(role) == {role.id, canonical(role.id)}

\* update_role and delete_role refuse every system role with a client error
\* and hand back the tables as they are
SystemRolesRefuse ==
    \A i \in DOMAIN roles :
        roles[i].is_system_role =>
            \A id \in IdStringsOf(roles[i]) :
                /\ \A d \in RoleUpdatePayloads :
                      LET r == update_role_result(id, d)
                      IN  /\ ClientError(r.resp.status)
                          /\ r.roles = roles
                          /\ r.role_scopes = role_scopes
                /\ LET r == delete_role_result(id)
                   IN  /\ ClientError(r.resp.status)
                       /\ r.roles = roles
                       /\ r.role_scopes = role_scopes

\* no step removes or changes the row of a system role
SystemRolesStay ==
    \A i \in DOMAIN roles :
        roles[i].is_system_role =>
            \E j \in DOMAIN roles' : roles'[j] = roles[i]

\* C3: in the normalized model, whatever happened before, update_role (with
\* any payload) and delete_role on a role whose is_system_role is true fail
\* with a client error and leave the tables as they are, and no step of the
\* controller removes a system role or changes one of its stored fields.
C3_SystemRolesImmutable == []SystemRolesRefuse /\ [][SystemRolesStay]_vars

\* C3 witness: an update of a system role has just been refused, and the
\* role is stored with the name it was created with.
C3_Witness ==
    /\ resp.op = "update_role" /\ resp.status = 400
    /\ resp.detail = "Cannot update system roles"
    /\ \E i \in DOMAIN roles :
          /\ roles[i].is_system_role
          /\ roles[i].id = uuid4(1)
          /\ roles[i].name = "system_admin"


----------------------------------------------------------------------------
(* Claims about the admin role catalog, checked under SpecResolver.        *)

AdminRoleUpdatePayloads ==
    {[permissions |-> l] : l \in PermissionLists} \cup {[name |-> "renamed"]}

\* update_admin_role_service and delete_admin_role_service fail on every
\* system role and hand back the table as it is
SystemAdminRolesRefuse ==
    \A i \in DOMAIN admin_roles :
        admin_roles[i].is_system_role =>
            \A id \in IdStringsOf(admin_roles[i]) :
                /\ \A d \in AdminRoleUpdatePayloads :
                      \A r \in update_admin_role_service_results(id, d) :
                          r.resp.status # 200 /\ r.roles = admin_roles
                /\ \A r \in delete_admin_role_service_results(id) :
                      r.resp.status # 200 /\ r.roles = admin_roles

\* no step removes the row of a system role or changes its name or its
\* permissions list
SystemAdminRolesStay ==
    \A i \in DOMAIN admin_roles :
        admin_roles[i].is_system_role =>
            \E j \in DOMAIN admin_roles' :
                /\ admin_roles'[j].id = admin_roles[i].id
                /\ admin_roles'[j].name = admin_roles[i].name
                /\ admin_roles'[j].permissions = admin_roles[i].permissions

----------------------------------------------------------------------------
(* Claims about the enterprise tables, checked under SpecEnt.              *)

\* the enterprise roles a principal's role_ids name
EnterpriseRolesOf(row) ==
    {role \in Range(enterprise_roles) :
        \E k \in DOMAIN json_loads(row.role_ids) :
            strip_hyphens(json_loads(row.role_ids)[k]) = role.id}

\* C5: no enterprise user and no enterprise admin ever holds, in its role
\* set, an enterprise role of another tenant, whatever role ids the create
\* and update requests name.
C5_TenantIsolation ==
    \A row \in Range(enterprise_users) \cup Range(enterprise_admins) :
        \A role \in EnterpriseRolesOf(row) :
            role.enterprise_client_id = row.enterprise_client_id


----------------------------------------------------------------------------
(* Claims about the HTTP surface                                           *)

\* the tables an outcome leaves are the tables the request found
StoreUntouched(r) ==
    /\ r.admin_users = admin_users
    /\ r.admin_roles = admin_roles
    /\ r.enterprise_users = enterprise_users
    /\ r.drew = 0

\* what each management endpoint of the model makes of a request with the
\* given Authorization header
ManagementOutcomes(authorization) ==
    UNION ({create_admin_user_endpoint_results(authorization, d)
              : d \in HttpUserPayloads}
           \cup {get_admin_users_endpoint_results(authorization)}
           \cup {create_admin_role_endpoint_results(authorization, d)
                   : d \in HttpRolePayloads}
           \cup {get_admin_roles_endpoint_results(authorization)}
           \cup {get_admin_permissions_endpoint_results(authorization)}
           \cup {create_enterprise_user_endpoint_results(authorization, d)
                   : d \in HttpEnterpriseUserPayloads})

\* C6: every management endpoint (GET /users, POST /users, GET /roles,
\* GET /permissions, the enterprise-* ones) answers a request that carries
\* no bearer token with 401, and the store is neither read nor written for
\* that request: the endpoint function is not called and the tables stay.
C6_NoTokenNoAccess ==
    /\ \A r \in ManagementOutcomes(NoAuthorization) :
            /\ r.resp.status = 401
            /\ ~r.called
            /\ StoreUntouched(r)
    /\ (request.op # "none" /\ "authorization" \in DOMAIN request
            /\ request.authorization = NoAuthorization)
        => (resp.status = 401 /\ ~request.called)

\* the effective permission set of a user holds no permission on the resource
LacksResource(user, resource) ==
    \A permissions \in _get_user_permissions_from_roles(user) :
        \A id \in Range(permissions) :
            \A i \in DOMAIN admin_permissions :
                admin_permissions[i].id = id
                    => admin_permissions[i].resource # resource

\* what the role-management and the permission-management endpoints of the
\* model make of a request, with the resource each of them manages
GatedOutcomes(authorization) ==
    {[resource |-> "role", outcome |-> o]
        : o \in UNION ({create_admin_role_endpoint_results(authorization, d)
                          : d \in HttpRolePayloads}
                       \cup {get_admin_roles_endpoint_results(authorization)})}
    \cup {[resource |-> "permission", outcome |-> o]
            : o \in get_admin_permissions_endpoint_results(authorization)}

\* C7: a role-management or permission-management request of an
\* authenticated, active admin whose effective permission set holds no
\* permission with the operation's (resource, action) pair, here none on
\* the operation's resource at all, is answered with 403 and the store stays
\* as it was.
C7_FineGateForbids ==
    \A t \in {i.token : i \in issued} :
        LET current == get_current_admin_user_service_result(t, TRUE)
        IN  (current.status = 200)
            => \A g \in GatedOutcomes(BearerToken(t)) :
                    LacksResource(current.body, g.resource)
                        => /\ g.outcome.resp.status = 403
                           /\ StoreUntouched(g.outcome)


----------------------------------------------------------------------------
(* Specification of identifier formats: admin users are created and        *)
(* updated with permission ids in the hyphenated and in the stripped form, *)
(* roles change their permissions, users are read back.                    *)

\* permission lists whose ids are written in either form
FormatPermissionLists ==
    {<<>>, <<canonical(SeedPermB1)>>, <<SeedPermB1>>}
FormatRoleIdLists == {<<>>, <<canonical(SeedRoleId)>>}
FormatUserPayloads ==
    {[email |-> "new@example.com", username |-> "new", password |-> "pw",
      role_ids |-> l, permissions |-> p]
        : l \in FormatRoleIdLists, p \in FormatPermissionLists}
FormatUserIdStrings == {uuid4(1)}

InitFormats == InitSeeded

NextFormats ==
    \/ \E d \in FormatUserPayloads : create_admin_user_service(d)
    \/ \E id \in FormatUserIdStrings, l \in FormatPermissionLists :
            update_admin_user_service(id, [permissions |-> l])
    \/ \E id \in FormatUserIdStrings, l \in FormatRoleIdLists :
            update_admin_user_service(id, [role_ids |-> l])
    \/ \E id \in FormatUserIdStrings : get_admin_user_by_id_service(id)
    \/ \E l \in FormatPermissionLists :
            update_admin_role_service(SeedRoleId, [permissions |-> l])

SpecFormats == InitFormats /\ [][NextFormats]_vars

\* no two entries of the list are the same identifier after normalization
OncePerIdentifier(list) ==
    \A i, j \in DOMAIN list :
        strip_hyphens(list[i]) = strip_hyphens(list[j]) => i = j

\* C11: membership in the resolved set is decided after normalization: a
\* permission that a user holds directly in one form and through a role in
\* the other form appears exactly once in every list the resolver returns
\* for the user, and in the permissions of the user read back.
C11_ResolvedOncePerIdentifier ==
    /\ \A i \in DOMAIN admin_users :
          \A permissions \in _get_user_permissions_from_roles(admin_users[i]) :
              OncePerIdentifier(permissions)
    /\ (resp.op = "get_admin_user_by_id" /\ resp.status = 200)
          => OncePerIdentifier(resp.body.permissions)


----------------------------------------------------------------------------
(* Claims about deleted roles, checked under SpecResolver.                 *)

\* the id names a role of the catalog
NamesRole(role_id) ==
    \E k \in DOMAIN admin_roles : admin_roles[k].id = strip_hyphens(role_id)

\* the user row without the role ids that name no role
WithoutDangling(user) ==
    [user EXCEPT !.role_ids =
        json_dumps(SelectSeq(json_loads(user.role_ids), NamesRole))]

\* a role id that names no role adds nothing: the resolver returns, for
\* every user, what it returns for the user without such ids, which is the
\* union of the direct permissions and those of the roles that remain
DanglingTolerated ==
    \A i \in DOMAIN admin_users :
        LET user == admin_users[i]
        IN  /\ _get_user_permissions_from_roles(user) # {}
            /\ _get_user_permissions_from_roles(user)
                  = _get_user_permissions_from_roles(WithoutDangling(user))
            /\ \A l \in _get_user_permissions_from_roles(user) :
                  Range(l) = UnionOfDirectAndRoles(WithoutDangling(user))

\* a step that deletes a role leaves every user row as it was
DeleteKeepsUsers ==
    (resp'.op = "delete_admin_role" /\ Len(admin_roles') < Len(admin_roles))
        => admin_users' = admin_users

\* C12: deleting a role neither deletes nor alters the users whose role_ids
\* name it, and resolving such a user afterwards does not fail: the deleted
\* role's id adds no permission and the rest of the union, the direct
\* permissions and those of the other roles, is returned.
C12_DeletedRoleTolerated == []DanglingTolerated /\ [][DeleteKeepsUsers]_vars

\* C12 witness: the seeded role was deleted while a user names it, and the
\* user, read back, resolves to its direct permission alone.
C12_Witness ==
    /\ ~NamesRole(SeedRoleId)
    /\ resp.op = "get_admin_user_by_id" /\ resp.status = 200
    /\ SeedRoleId \in Range(resp.body.role_ids)
    /\ \E i \in DOMAIN admin_users :
          /\ admin_users[i].id = resp.body.id
          /\ json_loads(admin_users[i].permissions) = <<SeedPermB1>>
          /\ WithoutDangling(admin_users[i]) # admin_users[i]
    /\ resp.body.permissions = <<SeedPermB1>>


----------------------------------------------------------------------------
(* Specification of the catalog names: admin roles and admin permissions   *)
(* are created, renamed and deleted, one call at a time.                   *)

CatalogNames == {"support", ""}
CatalogRoleIdStrings == {SeedRoleId, uuid4(1), uuid4(2)}
CatalogPermissionIdStrings == {SeedPermB1, <<"2">>, uuid4(1), uuid4(2)}

NewPermissionPayloads ==
    {[name |-> n, action |-> "read", resource |-> "role", is_active |-> TRUE]
        : n \in CatalogNames \cup {"manage_roles"}}

InitCatalog == InitSeeded

NextCatalog ==
    \/ \E n \in CatalogNames \cup {"main_admin"} :
            create_admin_role_service(
                [name |-> n, is_active |-> TRUE, permissions |-> <<>>])
    \/ \E id \in CatalogRoleIdStrings, n \in CatalogNames \cup {"main_admin"} :
            update_admin_role_service(id, [name |-> n])
    \/ \E id \in CatalogRoleIdStrings : delete_admin_role_service(id)
    \/ \E d \in NewPermissionPayloads : create_admin_permission_service(d)
    \/ \E id \in CatalogPermissionIdStrings,
          n \in CatalogNames \cup {"manage_roles"} :
            update_admin_permission_service(id, [name |-> n])
    \/ \E id \in CatalogPermissionIdStrings :
            delete_admin_permission_service(id)

SpecCatalog == InitCatalog /\ [][NextCatalog]_vars

\* no two rows of the table share a name
UniqueNames(table) ==
    \A i, j \in DOMAIN table : table[i].name = table[j].name => i = j

\* a create under a name that a stored record carries is refused with a
\* client error and the table stays
CreateRefusesTakenNames ==
    /\ \A n \in {admin_roles[i].name : i \in DOMAIN admin_roles} :
          LET r == create_admin_role_service_result(
                       [name |-> n, is_active |-> TRUE, permissions |-> <<>>])
          IN  ClientError(r.resp.status) /\ r.roles = admin_roles
    /\ \A n \in {admin_permissions[i].name : i \in DOMAIN admin_permissions} :
          LET r == create_admin_permission_service_result(
                       [name |-> n, action |-> "read", resource |-> "role",
                        is_active |-> TRUE])
          IN  ClientError(r.resp.status) /\ r.permissions = admin_permissions

\* a rename of a record to the name another stored record carries is
\* refused with a client error and the table stays
RenameRefusesTakenNames ==
    /\ \A i \in DOMAIN admin_roles :
          \A n \in {admin_roles[k].name : k \in DOMAIN admin_roles \ {i}} :
              \A r \in update_admin_role_service_results(
                           canonical(admin_roles[i].id), [name |-> n]) :
                  ClientError(r.resp.status) /\ r.roles = admin_roles
    /\ \A i \in DOMAIN admin_permissions :
          \A n \in {admin_permissions[k].name
                      : k \in DOMAIN admin_permissions \ {i}} :
              LET r == update_admin_permission_service_result(
                           admin_permissions[i].id, [name |-> n])
              IN  ClientError(r.resp.status)
                      /\ r.permissions = admin_permissions

\* C13: after any sequence of creates, renames and deletes of admin roles,
\* and of admin permissions, no two stored records of a kind share a name;
\* a create or a rename to a name in use fails with a client error and
\* changes nothing in the store.
C13_CatalogNamesUnique ==
    /\ UniqueNames(admin_roles)
    /\ UniqueNames(admin_permissions)
    /\ CreateRefusesTakenNames
    /\ RenameRefusesTakenNames


----------------------------------------------------------------------------
(* Specification of the enterprise role names: roles of two tenants are    *)
(* created and renamed.                                                    *)

EnterpriseRoleNames == {"finance", "audit"}
EnterpriseRoleIdStrings == {uuid4(1), canonical(uuid4(2)), <<"z">>}

InitEntRoles == InitSeeded

NextEntRoles ==
    \/ \E n \in EnterpriseRoleNames, t \in Tenants :
            create_enterprise_role_service(
                [name |-> n, permissions |-> <<>>, enterprise_client_id |-> t])
    \/ \E id \in EnterpriseRoleIdStrings, n \in EnterpriseRoleNames :
            update_enterprise_role_service(id, [name |-> n])
    \/ \E id \in EnterpriseRoleIdStrings, b \in BOOLEAN :
            update_enterprise_role_service(id, [is_active |-> b])

SpecEntRoles == InitEntRoles /\ [][NextEntRoles]_vars

\* C14: enterprise role names are unique per tenant at creation and at
\* rename: after any sequence of create_enterprise_role_service and
\* update_enterprise_role_service calls no two enterprise roles of the same
\* enterprise_client_id share a name (roles of different tenants may).
C14_EnterpriseRoleNamesUniquePerTenant ==
    \A i, j \in DOMAIN enterprise_roles :
        (/\ enterprise_roles[i].enterprise_client_id
                = enterprise_roles[j].enterprise_client_id
         /\ enterprise_roles[i].name = enterprise_roles[j].name)
            => i = j


----------------------------------------------------------------------------
(* Specification of the admin identities: admin users are created and      *)
(* their email and username are changed, one call at a time.               *)

IdentityEmails == {"new@example.com", "mainadmin@example.com", ""}
IdentityUsernames == {"new", "mainadmin", ""}
IdentityPayloads ==
    {[email |-> e, username |-> u, password |-> "pw", role_ids |-> <<>>,
      permissions |-> <<>>] : e \in IdentityEmails, u \in IdentityUsernames}
IdentityUserIdStrings == {SeedUserId, uuid4(1), <<"2">>, <<"3">>}

InitIdentity == InitSeeded

NextIdentity ==
    \/ \E d \in IdentityPayloads : create_admin_user_service(d)
    \/ \E id \in IdentityUserIdStrings, e \in IdentityEmails :
            update_admin_user_service(id, [email |-> e])
    \/ \E id \in IdentityUserIdStrings, u \in IdentityUsernames :
            update_admin_user_service(id, [username |-> u])

SpecIdentity == InitIdentity /\ [][NextIdentity]_vars

\* no two admin users share an email, none share a username
UniqueIdentities ==
    \A i, j \in DOMAIN admin_users :
        (admin_users[i].email = admin_users[j].email
            \/ admin_users[i].username = admin_users[j].username) => i = j

\* the outcome is an error that left the users as they were
FailsUnchanged(r) == r.resp.status >= 400 /\ r.users = admin_users

\* a create whose email or username a stored user carries, and an update
\* of a user to the email or the username of another stored user, fail and
\* leave every stored user as it was
CollisionsFail ==
    /\ \A d \in IdentityPayloads :
          (\E k \in DOMAIN admin_users :
                admin_users[k].email = d.email
                    \/ admin_users[k].username = d.username)
            => \A r \in create_admin_user_service_results(d) : FailsUnchanged(r)
    /\ \A i \in DOMAIN admin_users :
          \A k \in DOMAIN admin_users \ {i} :
              /\ \A r \in update_admin_user_service_results(
                              admin_users[i].id,
                              [email |-> admin_users[k].email]) :
                    FailsUnchanged(r)
              /\ \A r \in update_admin_user_service_results(
                              admin_users[i].id,
                              [username |-> admin_users[k].username]) :
                    FailsUnchanged(r)

\* C15: after any sequence of create_admin_user_service and
\* update_admin_user_service calls no two admin users share an email or a
\* username; a call that would make two users share one fails, nothing of
\* it is persisted and every stored user is as before.
C15_AdminIdentitiesUnique == UniqueIdentities /\ CollisionsFail

\* C15 witness: with two users stored, an update of one to the other's
\* email was refused and both rows are in place.
C15_Witness ==
    /\ Len(admin_users) = 2
    /\ resp.op = "update_admin_user"
    /\ resp.status = 400
    /\ resp.detail = "Email already exists"
    /\ UniqueIdentities


----------------------------------------------------------------------------
(* Specification of the role-scope assignments: roles are created with     *)
(* scopes, scopes are assigned to roles and removed from them.             *)

\* the scope of the catalog and an id that names no scope
ScopeIds == {scopes[1].id, <<"d", "9">>}
ScopeIdLists ==
    {<<>>, <<scopes[1].id>>, <<scopes[1].id, scopes[1].id>>}
ScopedRolePayloads ==
    {[name |-> n, description |-> "d", is_system_role |-> FALSE,
      scope_ids |-> l] : n \in {"editor", "viewer"}, l \in ScopeIdLists}
ScopedRoleIds == {uuid4(1), uuid4(2), uuid4(3)}

InitScopes == InitSeeded

NextScopes ==
    \/ \E d \in ScopedRolePayloads : create_role_with_scopes(d)
    \/ \E r \in ScopedRoleIds, s \in ScopeIds : assign_scope_to_role(r, s)
    \/ \E r \in ScopedRoleIds, s \in ScopeIds : remove_scope_from_role(r, s)

SpecScopes == InitScopes /\ [][NextScopes]_vars

\* C16: in every reachable state of the normalized model there is at most
\* one RoleScope row per (role_id, scope_id) pair, whatever sequence of
\* assign_scope_to_role, remove_scope_from_role and create_role_with_scopes
\* calls was made, a create_role_with_scopes whose scope_ids repeats an id
\* included.
C16_OneRowPerRoleScopePair ==
    \A i, j \in DOMAIN role_scopes :
        (/\ role_scopes[i].role_id = role_scopes[j].role_id
         /\ role_scopes[i].scope_id = role_scopes[j].scope_id) => i = j

\* the role of that name is stored with an assignment of every scope id
StoredWithScopes(r, role_data) ==
    \E k \in DOMAIN r.roles :
        /\ r.roles[k].name = role_data.name
        /\ \A n \in DOMAIN role_data.scope_ids :
              \E a \in DOMAIN r.role_scopes :
                  /\ r.role_scopes[a].role_id = r.roles[k].id
                  /\ r.role_scopes[a].scope_id = role_data.scope_ids[n]

\* C17: create_role_with_scopes is all-or-nothing: whenever it answers with
\* an error neither the role nor any of its scope assignments is stored;
\* whenever it succeeds the role and an assignment for every requested
\* scope id are stored.
C17_CreateRoleWithScopesAtomic ==
    \A d \in ScopedRolePayloads :
        \A r \in create_role_with_scopes_results(d) :
            IF r.resp.status = 200
            THEN StoredWithScopes(r, d)
            ELSE r.roles = roles /\ r.role_scopes = role_scopes


----------------------------------------------------------------------------
(* Specification of the login profile: the administrator logs in while its *)
(* permissions and roles and the permissions of its role are changed.      *)

ProfileUserIdStrings == {SeedUserId}
ProfileLogins ==
    {[email |-> "mainadmin@example.com", password |-> p] : p \in Passwords}

InitProfile == InitSeeded

NextProfile ==
    \/ \E l \in ProfileLogins : login_user(l.email, l.password)
    \/ \E id \in ProfileUserIdStrings, l \in PermissionLists :
            update_admin_user_service(id, [permissions |-> l])
    \/ \E id \in ProfileUserIdStrings, l \in {<<>>, <<SeedRoleId>>} :
            update_admin_user_service(id, [role_ids |-> l])
    \/ \E l \in PermissionLists :
            update_admin_role_service(SeedRoleId, [permissions |-> l])
    \/ Tick

SpecProfile == InitProfile /\ [][NextProfile]_vars

\* C18: the permissions of a successful login response are the user's
\* effective permission set at login time: the union of its direct
\* permission ids and the permission ids of the roles it is assigned.
C18_LoginPermissionsEffective ==
    \A l \in ProfileLogins :
        LET r == login_user_result(l.email, l.password)
            i == get_admin_user_by_email_service(l.email)
        IN  r.status = 200
                => Range(r.body.permissions)
                        = UnionOfDirectAndRoles(admin_users[i])


----------------------------------------------------------------------------
(* Specification of the profile endpoint: administrators log in and ask    *)
(* for their profile with the tokens they hold, while they are deactivated, *)
(* activated and deleted and the clock runs.                                *)

MeAuthorizations ==
    {NoAuthorization}
    \cup {BearerToken(t) : t \in {i.token : i \in issued} \cup ForgedTokens}

InitMe == InitSeeded

NextMe ==
    \/ \E e \in Emails, p \in Passwords : login_user_service(e, p)
    \/ \E a \in MeAuthorizations : get_current_user_info(a)
    \/ \E id \in AuthUserIdStrings : deactivate_user_service(id)
    \/ \E id \in AuthUserIdStrings : activate_user_service(id)
    \/ \E id \in AuthUserIdStrings : delete_admin_user_service(id)
    \/ Tick

SpecMe == InitMe /\ [][NextMe]_vars

\* the header carries a verifiable, unexpired token of a stored, active
\* administrator
ValidBearer(authorization) ==
    /\ authorization.scheme = "Bearer"
    /\ verify_token_service(authorization.credentials).ok
    /\ LET i == get_admin_user_by_email_service(
                    verify_token_service(authorization.credentials).email)
       IN  i # 0 /\ admin_users[i].is_active

\* C19: GET /auth/me with a valid, unexpired bearer token of a stored,
\* active administrator answers 200 with that administrator's profile, and
\* it answers 401 only when the token is missing or invalid or the
\* administrator is absent or inactive.
C19_MeReturnsProfile ==
    \A a \in MeAuthorizations :
        LET r == get_current_user_info_result(a)
        IN  /\ ValidBearer(a)
                => /\ r.status = 200
                   /\ r.body.email
                        = verify_token_service(a.credentials).email
            /\ r.status = 401 => ~ValidBearer(a)


----------------------------------------------------------------------------
(* Specification of password changes: administrators are created, change  *)
(* their passwords, log in, and are deactivated and activated.             *)

PasswordTexts == {"mainadmin123", "wrongpass", "newpass"}

PasswordUserPayloads ==
    {[email |-> "new@example.com", username |-> "new",
      password |-> "wrongpass", role_ids |-> <<>>, permissions |-> <<>>]}

PasswordLoginEmails == {"mainadmin@example.com", "new@example.com"}

InitPassword == InitSeeded

NextPassword ==
    \/ \E d \in PasswordUserPayloads : create_admin_user_service(d)
    \/ \E u \in Range(admin_users), cur \in PasswordTexts,
          new \in PasswordTexts :
            change_password_service(u, cur, new)
    \/ \E e \in PasswordLoginEmails, p \in PasswordTexts :
            login_user_service(e, p)
    \/ \E id \in {SeedUserId} : deactivate_user_service(id)
    \/ \E id \in {SeedUserId} : activate_user_service(id)

SpecPassword == InitPassword /\ [][NextPassword]_vars

\* C20: change_password_service replaces the stored digest only if
\* current_password verifies against the digest stored when it is called;
\* when it does not verify, the call fails with a client error and the
\* digest and every other field of the user (and of every user) stay as
\* they were.
C20_PasswordChangeVerified ==
    \A i \in DOMAIN admin_users, cur \in PasswordTexts,
       new \in PasswordTexts :
        LET user == admin_users[i]
            r == change_password_service_result(user, cur, new)
        IN  /\ r.users[i].password # user.password
                => verify_password(cur, user.password)
            /\ ~verify_password(cur, user.password)
                => /\ r.resp.status \in 400..499
                   /\ r.users = admin_users
            /\ verify_password(cur, user.password)
                => r.users[i]
                     = [user EXCEPT !.password = get_password_hash(new)]

\* a change with a wrong current password was refused, after an earlier
\* change had replaced the seeded digest
C20_Witness ==
    /\ resp.op = "change_password"
    /\ resp.status = 400
    /\ \E u \in Range(admin_users) :
        /\ u.id = request.user_id
        /\ u.id = SeedUserId
        /\ ~verify_password(request.current_password, u.password)
        /\ u.password = get_password_hash("newpass")


----------------------------------------------------------------------------
(* Specification of the identifier normalization: the resolver normalizes  *)
(* an identifier string of a role_ids or permissions list, and normalizes  *)
(* what it got once more.                                                  *)

IdChars == {"a", "1", "-"}

\* the identifier strings of at most MaxIdLen characters
IdStrings == UNION {[1..n -> IdChars] : n \in 0..MaxIdLen}

\* an identifier string written with one hyphen more, after its i-th
\* character
hyphenated(x, i) == SubSeq(x, 1, i) \o <<"-">> \o SubSeq(x, i + 1, Len(x))

InitNormalize ==
    /\ admin_permissions = create_default_admin_permissions
    /\ admin_roles = create_default_admin_roles
    /\ admin_users = create_default_admin_user
    /\ uuid_count = 0
    /\ resp = NoResponse
    /\ now = 0
    /\ issued = {}
    /\ request \in {[op |-> "normalize", role_id |-> x] : x \in IdStrings}
    /\ deactivated = {}
    /\ suspended = {}
    /\ roles = <<>>
    /\ role_scopes = <<>>
    /\ enterprise_users = <<>>
    /\ enterprise_roles = <<>>
    /\ enterprise_admins = <<>>
    /\ pending = NoPending

\* normalized_role_id = role_id.replace('-', '')
normalize ==
    /\ resp' = Response("normalize", 200, None, NoHeaders,
                        strip_hyphens(request.role_id))
    /\ UNCHANGED <<store_vars, now, issued, request, history_vars, pending,
                   norm_vars, ent_vars>>

\* the normalized identifier is normalized again
normalize_again ==
    /\ resp.op = "normalize"
    /\ request' = [op |-> "normalize", role_id |-> resp.body]
    /\ UNCHANGED <<store_vars, now, issued, resp, history_vars, pending, norm_vars,
                   ent_vars>>

NextNormalize == normalize \/ normalize_again

SpecNormalize == InitNormalize /\ [][NextNormalize]_vars

\* C21: stripping the hyphens is idempotent, and a string and the same
\* string written with a hyphen more anywhere (so the hyphenated and the
\* hyphen-free spelling of one identifier) normalize to the same value; the
\* canonical text of a UUID normalizes to its hex digits.
C21_NormalizeIdempotent ==
    LET x == request.role_id
    IN  /\ strip_hyphens(strip_hyphens(x)) = strip_hyphens(x)
        /\ \A i \in 0..Len(x) :
                strip_hyphens(hyphenated(x, i)) = strip_hyphens(x)
        /\ Len(x) = 2 => strip_hyphens(canonical(x)) = strip_hyphens(x)
        /\ resp.op = "normalize" => strip_hyphens(resp.body) = resp.body

\* an identifier with two hyphens was normalized to its two other characters
C21_Witness ==
    /\ resp.op = "normalize"
    /\ Cardinality({i \in DOMAIN request.role_id :
                        request.role_id[i] = "-"}) = 2
    /\ resp.body = <<"a", "1">>


----------------------------------------------------------------------------
(* Specification of role-held permissions: administrators are created with *)
(* the role main_admin and no permission of their own, then the role's     *)
(* permissions and the administrators' roles are changed and the           *)
(* administrators are read.                                                *)

SnapshotUserPayloads ==
    {[email |-> i.email, username |-> i.username, password |-> "pw",
      role_ids |-> l, permissions |-> <<>>]
        : i \in {[email |-> "new@example.com", username |-> "new"],
                 [email |-> "other@example.com", username |-> "other"]},
          l \in {<<SeedRoleId>>, <<canonical(SeedRoleId)>>}}

SnapshotUserIdStrings == {uuid4(1), uuid4(2)}

InitSnapshot == InitSeeded

NextSnapshot ==
    \/ \E d \in SnapshotUserPayloads : create_admin_user_service(d)
    \/ \E l \in PermissionLists :
            update_admin_role_service(SeedRoleId, [permissions |-> l])
    \/ \E id \in SnapshotUserIdStrings, l \in {<<>>, <<SeedRoleId>>} :
            update_admin_user_service(id, [role_ids |-> l])
    \/ \E id \in SnapshotUserIdStrings : get_admin_user_by_id_service(id)

SpecSnapshot == InitSnapshot /\ [][NextSnapshot]_vars

\* C22: an administrator created with a role and without a permission of
\* its own holds, on every read, only permissions its assigned roles hold
\* now: a permission taken from the role, or of a role taken from the
\* administrator, is no longer returned by get_admin_user_by_id_service.
C22_RolePermissionsTrackRole ==
    \A u \in Range(admin_users) :
        u.id # SeedUserId =>
            \A r \in get_admin_user_by_id_service_results(u.id) :
                r.status = 200
                    => Range(r.body.permissions)
                         \subseteq Range(role_permissions_of(
                                            json_loads(u.role_ids)))


----------------------------------------------------------------------------
(* Specification of concurrent role creation: two sessions create admin    *)
(* roles at the same time, each call checking the name and committing in   *)
(* steps of its own; roles are deleted in between.                         *)

ConcurrentRolePayloads ==
    {[name |-> n, is_active |-> TRUE, permissions |-> l] :
        n \in {"support", "main_admin"}, l \in {<<>>, <<SeedPermB1>>}}

ConcurrentRoleIdStrings ==
    {strip_hyphens(canonical(uuid4(n))) : n \in 1..MaxUuids}

InitConcurrent == InitSeeded

NextConcurrent ==
    \/ \E s \in Sessions, d \in ConcurrentRolePayloads :
            create_admin_role_begin(s, d)
    \/ \E s \in Sessions : create_admin_role_commit(s)
    \/ \E id \in ConcurrentRoleIdStrings : delete_admin_role_service(id)

SpecConcurrent == InitConcurrent /\ [][NextConcurrent]_vars

\* a commit of a call whose name was taken since it looked fails and
\* leaves the table as it was
LateCommitsFail ==
    \A s \in Sessions :
        (/\ pending[s].pc = "checked"
         /\ pending'[s].pc = "idle"
         /\ name_taken(admin_roles, 0, pending[s].role_data.name))
            => /\ resp'.status >= 400
               /\ admin_roles' = admin_roles

\* C23: under every interleaving of concurrent create_admin_role_service
\* calls no two stored admin roles share a name: of two calls that both
\* found the name free, the one that commits second is rejected by the
\* unique index of name, rolled back and answered with an error.
C23_ConcurrentCreatesKeepNamesUnique ==
    /\ []UniqueNames(admin_roles)
    /\ [][LateCommitsFail]_vars

\* both sessions found the name free, one has committed, and the commit of
\* the other was answered with an error
C23_Witness ==
    /\ resp.op = "create_admin_role"
    /\ resp.status = 500
    /\ \A s \in Sessions : pending[s].pc = "idle"
    /\ \E i \in DOMAIN admin_roles : admin_roles[i].name = "support"


----------------------------------------------------------------------------
(* Specification of dangling permission ids: administrators are created    *)
(* with ids of permissions that exist and of one that never did,           *)
(* permissions are deleted, and the administrators are read.               *)

\* the id of a permission that was never stored
GhostPermission == <<"b", "9">>

DanglingUserPayloads ==
    {[email |-> "new@example.com", username |-> "new", password |-> "pw",
      role_ids |-> l, permissions |-> p]
        : l \in {<<>>, <<SeedRoleId>>},
          p \in {<<SeedPermB1>>, <<GhostPermission>>,
                 <<SeedPermB2, GhostPermission>>}}

DanglingUserIdStrings == {SeedUserId, uuid4(1)}
DanglingPermissionIdStrings == {SeedPermB1, canonical(SeedPermB2)}

InitDangling == InitSeeded

NextDangling ==
    \/ \E d \in DanglingUserPayloads : create_admin_user_service(d)
    \/ \E id \in DanglingPermissionIdStrings :
            delete_admin_permission_service(id)
    \/ \E id \in DanglingUserIdStrings : get_admin_user_by_id_service(id)
    \/ \E id \in {uuid4(1)} : delete_admin_user_service(id)

SpecDangling == InitDangling /\ [][NextDangling]_vars

\* the stored permission an id names, 0 when it names none
live(permission_id) ==
    first(admin_permissions,
          LAMBDA perm : perm.id = strip_hyphens(permission_id))

\* C24: a permission id of a user's resolved set that has no stored
\* AdminPermission (never stored, or deleted) stays in the resolved id set
\* and is left out of the name projection, and neither computation fails
\* (a read that finds the user answers 200); the name projection holds
\* exactly the names of the ids that resolve.
C24_DanglingIdsSkipped ==
    \A u \in Range(admin_users) :
        /\ \E r \in get_admin_user_by_id_service_results(u.id) :
                r.status = 200
        /\ \A r \in get_admin_user_by_id_service_results(u.id) :
            /\ r.status \in {200, 404}
            /\ r.status = 200 =>
                /\ Range(r.body.permissions)
                     = Range(json_loads(u.permissions))
                        \cup Range(role_permissions_of(
                                        json_loads(u.role_ids)))
                /\ Range(r.body.permission_names)
                     = {admin_permissions[live(id)].name :
                            id \in {p \in Range(r.body.permissions) :
                                        live(p) # 0}}
                /\ Len(r.body.permission_names)
                     = Cardinality({i \in DOMAIN r.body.permissions :
                                        live(r.body.permissions[i]) # 0})

\* a read returned a deleted permission's id and the id of a permission
\* that never was, and the name of the one permission that resolves
C24_Witness ==
    /\ resp.op = "get_admin_user_by_id"
    /\ resp.status = 200
    /\ GhostPermission \in Range(resp.body.permissions)
    /\ SeedPermB1 \in Range(resp.body.permissions)
    /\ live(SeedPermB1) = 0
    /\ resp.body.permission_names = <<"manage_roles">>


----------------------------------------------------------------------------
(* Specification of role lookups by id: admin roles are created, read,     *)
(* updated and deleted by their id in its stored and its canonical form.   *)

LookupRoleIdStrings ==
    {SeedRoleId, canonical(SeedRoleId), uuid4(1), canonical(uuid4(1)),
     <<"z">>}

LookupRolePayloads ==
    {[name |-> n, is_active |-> TRUE, permissions |-> <<SeedPermB1>>] :
        n \in {"support", "audit"}}

InitLookup == InitSeeded

NextLookup ==
    \/ \E d \in LookupRolePayloads : create_admin_role_service(d)
    \/ \E id \in LookupRoleIdStrings : get_admin_role_by_id_service(id)
    \/ \E id \in LookupRoleIdStrings, l \in PermissionLists :
            update_admin_role_service(id, [permissions |-> l])
    \/ \E id \in LookupRoleIdStrings : delete_admin_role_service(id)

SpecLookup == InitLookup /\ [][NextLookup]_vars

\* C25: get_admin_role_by_id_service, update_admin_role_service and
\* delete_admin_role_service find a stored role by its id in the stored,
\* hyphen-free form and in the canonical, hyphenated form.
C25_RoleLookupsNormalize ==
    \A i \in DOMAIN admin_roles :
        \A role_id \in {admin_roles[i].id, canonical(admin_roles[i].id)} :
            /\ get_admin_role_by_id_service_row(role_id) = i
            /\ \A r \in update_admin_role_service_results(
                            role_id, [permissions |-> <<>>]) :
                    r.resp.status \notin {400, 404}
            /\ \A r \in delete_admin_role_service_results(role_id) :
                    r.resp.status \notin {400, 404}


----------------------------------------------------------------------------
(* Specification of lookups by position: users, roles and permissions are  *)
(* created, and read, updated, deleted, activated and deactivated under    *)
(* identifiers that are no key: positions inside and outside the listing   *)
(* and text that is no integer.                                            *)

PositionStrings ==
    {<<"1">>, <<"2">>, <<"0">>, <<"-", "1">>, <<"9">>, <<"x">>, <<>>}

PositionUserPayloads ==
    {[email |-> "new@example.com", username |-> "new", password |-> "pw",
      role_ids |-> <<>>, permissions |-> <<>>]}

InitPosition == InitSeeded

\* the identifiers the changing calls are given
ChangePositionStrings == {<<"1">>, <<"2">>, <<"0">>, <<"x">>}

NextPosition ==
    \/ \E d \in PositionUserPayloads : create_admin_user_service(d)
    \/ \E id \in PositionStrings : get_admin_user_by_id_service(id)
    \/ \E id \in ChangePositionStrings : delete_admin_user_service(id)
    \/ \E id \in ChangePositionStrings : deactivate_user_service(id)
    \/ \E id \in PositionStrings : get_admin_role_by_id_service(id)
    \/ \E id \in ChangePositionStrings : delete_admin_permission_service(id)

SpecPosition == InitPosition /\ [][NextPosition]_vars

\* the row a position names in a listing of count rows, 0 for NotFound
nth(id, count) ==
    IF int(id).ok /\ 1 <= int(id).value /\ int(id).value <= count
    THEN int(id).value ELSE 0

\* a call whose lookup fails answers NotFound and leaves the users as they
\* are
NotFoundUnchanged(results) ==
    \A r \in results : r.resp.status = 404 /\ r.users = admin_users

\* C26: an identifier that is no key is a 1-based position in the full
\* listing: the user, role and permission lookups give the n-th row for
\* 1 <= n <= count and NotFound, never an error, for n <= 0, n > count and
\* text that is no integer; an update, delete, activate or deactivate whose
\* lookup fails changes nothing.
C26_PositionalLookup ==
    \A id \in PositionStrings :
        /\ \A i \in _convert_id_to_user_results(id) :
                i = nth(id, Len(admin_users))
        /\ get_admin_role_by_id_service_row(id) = nth(id, Len(admin_roles))
        /\ _convert_id_to_permission(id) = nth(id, Len(admin_permissions))
        /\ nth(id, Len(admin_users)) = 0 =>
            /\ NotFoundUnchanged(
                    update_admin_user_service_results(
                        id, [is_active |-> FALSE]))
            /\ NotFoundUnchanged(delete_admin_user_service_results(id))
            /\ NotFoundUnchanged(activate_user_service_results(id))
            /\ NotFoundUnchanged(deactivate_user_service_results(id))
        /\ nth(id, Len(admin_permissions)) = 0 =>
            /\ delete_admin_permission_service_result(id).resp.status = 404
            /\ delete_admin_permission_service_result(id).permissions
                    = admin_permissions


----------------------------------------------------------------------------
(* Specification of token lifetimes: the administrator logs in, refreshes  *)
(* its token and logs out while the clock runs, and is deactivated and     *)
(* activated.                                                              *)

InitLifetime == InitSeeded

NextLifetime ==
    \/ \E e \in Emails, p \in Passwords : login_user_service(e, p)
    \/ \E u \in Range(admin_users) : refresh_token_service(u)
    \/ \E u \in Range(admin_users) : logout_user_service(u)
    \/ \E t \in {i.token : i \in issued}, db_ok \in {TRUE} :
            get_current_admin_user_service(t, db_ok)
    \/ \E id \in {SeedUserId} : deactivate_user_service(id)
    \/ \E id \in {SeedUserId} : activate_user_service(id)
    \/ Tick

SpecLifetime == InitLifetime /\ [][NextLifetime]_vars

\* the token a successful login or a refresh would issue now carries the
\* email of the user as sub and expires one lifetime from now
IssuedWithLifetime ==
    /\ \A e \in Emails, p \in Passwords :
        LET r == login_user_service_result(e, p)
        IN  r.status = 200
                => /\ r.body.access_token.sub = e
                   /\ r.body.access_token.exp
                        = now + ACCESS_TOKEN_EXPIRE_MINUTES
    /\ \A u \in Range(admin_users) :
        LET r == refresh_token_service_result(u)
        IN  /\ r.status = 200
            /\ r.body.access_token.sub = u.email
            /\ r.body.access_token.exp = now + ACCESS_TOKEN_EXPIRE_MINUTES

\* C27: a token issued at time t by login or refresh carries the email of
\* its user as sub and exp = t + L, L the configured lifetime (10080
\* minutes); verify_token_service accepts it at every time before t + L
\* and rejects it at every time after.
C27_TokenLifetime ==
    /\ ACCESS_TOKEN_EXPIRE_MINUTES = 10080
    /\ IssuedWithLifetime
    /\ \A i \in issued :
        /\ now < i.token.exp
            => /\ verify_token_service(i.token).ok
               /\ verify_token_service(i.token).email = i.token.sub
        /\ now > i.token.exp => ~verify_token_service(i.token).ok

\* after the lifetime of the login the token of the login is rejected and
\* the token of a later refresh is accepted
C27_Witness ==
    /\ now = ACCESS_TOKEN_EXPIRE_MINUTES + 1
    /\ \E i, j \in issued :
        /\ i.token.exp = ACCESS_TOKEN_EXPIRE_MINUTES
        /\ ~verify_token_service(i.token).ok
        /\ j.token.exp = 2 * ACCESS_TOKEN_EXPIRE_MINUTES - 1
        /\ verify_token_service(j.token).ok


\* the tokens issued so far that authenticate now
Authenticating ==
    {i.token : i \in {j \in issued :
        get_current_admin_user_service_result(j.token, TRUE).status = 200}}

\* a step of refresh_token_service or logout_user_service: it writes the
\* response and leaves the clock alone
RefreshOrLogout ==
    /\ resp'.op \in {"refresh_token", "logout_user"}
    /\ now' = now

\* such a step leaves the tables alone and every token that authenticated
\* before it authenticates after it
SessionsSurvive ==
    RefreshOrLogout
        => /\ UNCHANGED <<store_vars, norm_vars, ent_vars>>
           /\ Authenticating \subseteq Authenticating'

\* C28: logout and refresh change no server-side state: a token that
\* authenticated before logout_user_service or refresh_token_service
\* authenticates after it (until it expires, while its user is stored and
\* active), and refresh_token_service issues its token to the user it is
\* given without verifying a password.
C28_LogoutRefreshKeepSessions ==
    /\ [][SessionsSurvive]_vars
    /\ [](\A u \in Range(admin_users) :
            /\ refresh_token_service_result(u).status = 200
            /\ logout_user_service_result(u).status = 200)

\* the administrator has logged out, and the token of its login
\* authenticates
C28_Witness ==
    /\ resp.op = "logout_user"
    /\ \E i \in issued :
        /\ i.to = request.user_id
        /\ i.token \in Authenticating


----------------------------------------------------------------------------
(* Specification of token binding: administrators are created, log in,     *)
(* change their email and are deleted, and present their tokens.           *)

BindingEmails == {"mainadmin@example.com", "moved@example.com"}

BindingUserPayloads ==
    {[email |-> e, username |-> "new", password |-> "pw",
      role_ids |-> <<>>, permissions |-> <<>>] : e \in BindingEmails}

BindingUserIdStrings == {SeedUserId, uuid4(1)}

BindingLogins ==
    {[email |-> "mainadmin@example.com", password |-> "mainadmin123"],
     [email |-> "mainadmin@example.com", password |-> "pw"],
     [email |-> "moved@example.com", password |-> "pw"]}

InitBinding == InitSeeded

NextBinding ==
    \/ \E d \in BindingUserPayloads : create_admin_user_service(d)
    \/ \E l \in BindingLogins : login_user_service(l.email, l.password)
    \/ \E id \in BindingUserIdStrings, e \in BindingEmails :
            update_admin_user_service(id, [email |-> e])
    \/ \E id \in BindingUserIdStrings : delete_admin_user_service(id)
    \/ \E t \in {i.token : i \in issued} :
            get_current_admin_user_service(t, TRUE)

SpecBinding == InitBinding /\ [][NextBinding]_vars

\* C29: a token stays bound to the user it was issued to: whatever users
\* were created, updated (their email included) and deleted since,
\* get_current_admin_user_service on a token issued to user U answers 401
\* or returns the record whose id is U's id.
C29_TokenBoundToPrincipal ==
    \A i \in issued :
        LET r == get_current_admin_user_service_result(i.token, TRUE)
        IN  /\ r.status \in {200, 401}
            /\ r.status = 200 => r.body.id = i.to


----------------------------------------------------------------------------
(***************************************************************************)
(* Specification of role activation: roles are created, activated,         *)
(* deactivated and updated, administrators are created with roles and      *)
(* read back.                                                              *)
(***************************************************************************)

ActiveRoleIdStrings ==
    {SeedRoleId, canonical(SeedRoleId), uuid4(1), <<"z">>}

ActiveRolePayloads ==
    {[name |-> "support", is_active |-> a, permissions |-> <<SeedPermB1>>] :
        a \in BOOLEAN}

ActiveUserPayloads ==
    {[email |-> "new@example.com", username |-> "new", password |-> "pw",
      role_ids |-> l, permissions |-> p]
        : l \in {<<SeedRoleId>>, <<uuid4(1)>>}, p \in {<<>>}}

InitRoleActive == InitSeeded

NextRoleActive ==
    \/ \E d \in ActiveRolePayloads : create_admin_role_service(d)
    \/ \E id \in ActiveRoleIdStrings : activate_role_service(id)
    \/ \E id \in ActiveRoleIdStrings : deactivate_role_service(id)
    \/ \E l \in {<<>>, <<SeedPermB1>>} :
            update_admin_role_service(uuid4(1), [permissions |-> l])
    \/ \E d \in ActiveUserPayloads : create_admin_user_service(d)
    \/ get_admin_user_by_id_service(uuid4(2))

SpecRoleActive == InitRoleActive /\ [][NextRoleActive]_vars

\* the flag the step writes, when the step is an activation or a
\* deactivation
RoleActiveStep ==
    /\ resp'.op \in {"activate_role", "deactivate_role"}
    /\ request'.op = resp'.op

\* the rows of the two tables are the same but for the is_active of the
\* role the request names
OnlyIsActiveOfTarget ==
    /\ Len(admin_roles') = Len(admin_roles)
    /\ \A k \in DOMAIN admin_roles :
            /\ [admin_roles'[k] EXCEPT !.is_active = admin_roles[k].is_active]
                   = admin_roles[k]
            /\ admin_roles'[k] # admin_roles[k]
                   => /\ UUID(request'.role_id).ok
                      /\ admin_roles[k].id = UUID(request'.role_id).hex

\* the permissions the resolver lists for an administrator, as a set
resolved(user) ==
    Range(role_permissions_of(json_loads(user.role_ids))
              \o json_loads(user.permissions))

\* C30: activate_role_service and deactivate_role_service change nothing
\* but the is_active of the role they are given: its name, permissions and
\* is_system_role, every other role, every administrator's stored role ids
\* and permissions and the permission set the resolver computes for it stay
\* as they were (the resolver does not look at is_active); a successful
\* call leaves is_active at the value it writes, so a repeated call changes
\* nothing.
C30_RoleActivationOnlyFlipsFlag ==
    /\ [](\A k \in DOMAIN admin_users :
            _get_user_permissions_from_roles(admin_users[k])
                = list_of_set(resolved(admin_users[k])))
    /\ [][RoleActiveStep =>
            /\ OnlyIsActiveOfTarget
            /\ admin_users' = admin_users
            /\ admin_permissions' = admin_permissions
            /\ \A k \in DOMAIN admin_users :
                    resolved(admin_users[k])' = resolved(admin_users[k])
            /\ resp'.status = 200 =>
                    \A k \in DOMAIN admin_roles :
                        admin_roles[k].id = UUID(request'.role_id).hex =>
                            /\ admin_roles'[k].is_active
                                   = (resp'.op = "activate_role")
                            /\ admin_roles[k].is_active
                                   = (resp'.op = "activate_role")
                                   => admin_roles' = admin_roles
            /\ resp'.status # 200 => admin_roles' = admin_roles]_vars

\* a role is deactivated while an administrator holds it, and the
\* administrator still resolves the permission of the role
C30_Witness ==
    /\ resp.op = "deactivate_role"
    /\ resp.status = 200
    /\ \E k \in DOMAIN admin_roles, u \in DOMAIN admin_users :
            /\ admin_roles[k].id = UUID(request.role_id).hex
            /\ ~admin_roles[k].is_active
            /\ admin_roles[k].name = "support"
            /\ json_loads(admin_users[u].role_ids) = <<admin_roles[k].id>>
            /\ json_loads(admin_users[u].permissions) = <<>>
            /\ SeedPermB1 \in resolved(admin_users[u])

====
